---- MODULE Spec2Model ----
(***************************************************************************)
(* Model of the authlete-deno-oak request handlers: the no-interaction     *)
(* handler, the authorization decision handler, the calls they make to     *)
(* /auth/authorization/issue and /auth/authorization/fail, and the claim   *)
(* collector.                                                              *)
(*                                                                         *)
(* Representation of JavaScript values:                                    *)
(*   - subjects, ACRs, tickets and claim values are TLA+ strings; null and *)
(*     undefined are the two marker strings Null and Undefined;            *)
(*   - claim names and claim locales are sequences of one-character        *)
(*     strings, because the code takes them apart (split, endsWith,        *)
(*     length, toLowerCase);                                               *)
(*   - an optional array is None or Some(seq).                             *)
(***************************************************************************)
EXTENDS Integers, Sequences, FiniteSets, TLC

--------------------------------------------------------------------------
(* JavaScript values *)

Null == "<null>"

Undefined == "<undefined>"

JsZero == "<0>"

JsFalse == "<false>"

None == [some |-> FALSE]

Some(x) == [some |-> TRUE, val |-> x]

\* The argument a two-argument call getUserClaimValue(subject, name) leaves out,
\* and the tag of a claim name that holds no separator.
NoTag == <<Undefined>>

\* JavaScript truthiness of a claim value.
Truthy(v) == v \notin {Null, Undefined, "", JsZero, JsFalse}

\* isEmpty of an optional array: null, undefined or length 0.
isEmpty(list) == (~list.some) \/ Len(list.val) = 0

\* isNotEmpty of a string or null.
isNotEmpty(s) == s \notin {Null, Undefined, ""}

\* isNotEmpty of a string held as a sequence of characters, or undefined.
isNotEmptyChars(cs) == cs # NoTag /\ Len(cs) > 0

--------------------------------------------------------------------------
(* no_interaction_handler.ts: the checks *)

MillisPerSecond == 1000

checkMaxAge_Inclusive(response, authTime, nowMillis) ==
    IF response.maxAge = 0 THEN TRUE
    ELSE nowMillis <= (authTime + response.maxAge) * MillisPerSecond

checkMaxAge(response, authTime, nowMillis) ==
    IF response.maxAge = 0 THEN TRUE
    ELSE IF nowMillis < (authTime + response.maxAge) * MillisPerSecond THEN TRUE
    ELSE FALSE

\* String.toLowerCase on the subjects of the model; used by checkSubject_CaseFolded only.
FoldSubject(s) == IF s = "Alice" THEN "alice" ELSE s

checkSubject_CaseFolded(response, subject) ==
    IF response.subject \in {Null, Undefined, ""} THEN TRUE
    ELSE FoldSubject(response.subject) = FoldSubject(subject)

checkSubject(response, subject) ==
    IF response.subject \in {Null, Undefined, ""} THEN TRUE
    ELSE response.subject = subject

checkAcr_EssentialIgnored(response, acr) ==
    IF isEmpty(response.acrs) THEN TRUE
    ELSE \E k \in 1..Len(response.acrs.val) : response.acrs.val[k] = acr

checkAcr(response, acr) ==
    IF isEmpty(response.acrs) THEN TRUE
    ELSE IF \E k \in 1..Len(response.acrs.val) : response.acrs.val[k] = acr THEN TRUE
    ELSE IF response.acrEssential THEN FALSE
    ELSE TRUE

--------------------------------------------------------------------------
(* claim_collector.ts: strings *)

CLAIM_SEPARATOR == "#"

\* String.toLowerCase, character by character, on the letters of the model.
LowerChar(c) ==
    CASE c = "E" -> "e"
      [] c = "N" -> "n"
      [] c = "J" -> "j"
      [] c = "U" -> "u"
      [] c = "S" -> "s"
      [] OTHER   -> c

\* The string as it is, in the place of its lower-case form.
toLowerCase_AsIs(cs) == cs

toLowerCase(cs) == [k \in 1..Len(cs) |-> LowerChar(cs[k])]

\* The index of the first separator in cs, or 0.
IndexOf(cs, sep) ==
    IF \E k \in 1..Len(cs) : cs[k] = sep
    THEN CHOOSE k \in 1..Len(cs) : cs[k] = sep /\ \A m \in 1..(k - 1) : cs[m] # sep
    ELSE 0

RECURSIVE SplitAll(_, _)
\* String.split(sep) with no limit: every piece between separators.
SplitAll(cs, sep) ==
    LET at == IndexOf(cs, sep)
    IN  IF at = 0 THEN <<cs>>
        ELSE <<SubSeq(cs, 1, at - 1)>> \o SplitAll(SubSeq(cs, at + 1, Len(cs)), sep)

\* String.split(sep, limit): the first `limit` pieces of the full split.
split(cs, sep, limit) ==
    LET pieces == SplitAll(cs, sep)
    IN  SubSeq(pieces, 1, IF Len(pieces) < limit THEN Len(pieces) ELSE limit)

\* String.includes in the place of String.endsWith.
endsWith_Includes(cs, sep) == \E k \in 1..Len(cs) : cs[k] = sep

endsWith(cs, sep) == Len(cs) > 0 /\ cs[Len(cs)] = sep

\* const [ name, tag ] = claimName.split(CLAIM_SEPARATOR, 2)
SplitClaimName(claimName) ==
    LET parts == split(claimName, CLAIM_SEPARATOR, 2)
    IN  [name |-> parts[1], tag |-> IF Len(parts) >= 2 THEN parts[2] ELSE NoTag]

--------------------------------------------------------------------------
(* claim_collector.ts: normalizeClaimLocales *)

RECURSIVE NormalizeLoop_FoldedKept(_, _, _, _)
\* The loop with the duplicate check made on the locale as written and the
\* lower-case form put in the list.
NormalizeLoop_FoldedKept(claimLocales, k, set, list) ==
    IF k > Len(claimLocales) THEN list
    ELSE LET claimLocale == claimLocales[k]
         IN  IF Len(claimLocale) = 0
                 THEN NormalizeLoop_FoldedKept(claimLocales, k + 1, set, list)
             ELSE IF claimLocale \in set
                 THEN NormalizeLoop_FoldedKept(claimLocales, k + 1, set, list)
             ELSE NormalizeLoop_FoldedKept(claimLocales, k + 1,
                                           set \cup {claimLocale},
                                           Append(list, toLowerCase(claimLocale)))

RECURSIVE NormalizeLoop(_, _, _, _)
\* The for loop of normalizeClaimLocales from index k on, with the set of
\* lower-cased locales seen and the list collected so far.
NormalizeLoop(claimLocales, k, set, list) ==
    IF k > Len(claimLocales) THEN list
    ELSE LET claimLocale == claimLocales[k]
         IN  IF Len(claimLocale) = 0
                 THEN NormalizeLoop(claimLocales, k + 1, set, list)
             ELSE IF toLowerCase(claimLocale) \in set
                 THEN NormalizeLoop(claimLocales, k + 1, set, list)
             ELSE NormalizeLoop(claimLocales, k + 1,
                                set \cup {toLowerCase(claimLocale)},
                                Append(list, claimLocale))

normalizeClaimLocales(claimLocales) ==
    IF isEmpty(claimLocales) THEN None
    ELSE LET list == NormalizeLoop(claimLocales.val, 1, {}, <<>>)
         IN  IF Len(list) > 0 THEN Some(list) ELSE None

--------------------------------------------------------------------------
(* claim_collector.ts: the claim provider and the collected object *)

\* A call claimProvider.getUserClaimValue(subject, name, tag); tag is NoTag
\* for the two-argument call.
Query(subject, name, tag) == [subject |-> subject, name |-> name, tag |-> tag]

\* What a call of the provider does instead of returning a value.
Throws == "<throws>"

\* What stands for the provider's value where the provider was never asked.
NeverAsked == "<never asked>"

\* The provider as a function of its arguments: `answers` is the set of
\* [q, v] pairs it has answered with. What it would answer to a call never
\* made is not known, and NeverAsked stands for it.
Answer(answers, q) ==
    IF \E a \in answers : a.q = q
    THEN (CHOOSE a \in answers : a.q = q).v
    ELSE NeverAsked

\* The value of a decimal digit, or 10 for any other character.
DigitValue(c) ==
    CASE c = "0" -> 0 [] c = "1" -> 1 [] c = "2" -> 2 [] c = "3" -> 3 [] c = "4" -> 4
      [] c = "5" -> 5 [] c = "6" -> 6 [] c = "7" -> 7 [] c = "8" -> 8 [] c = "9" -> 9
      [] OTHER -> 10

\* A property key that is an array index: the canonical decimal form of an
\* integer (digits only, no leading zero). The upper limit of 2^32 - 2 is
\* out of reach of the keys of the model.
IsArrayIndex(key) ==
    /\ Len(key) > 0
    /\ \A k \in 1..Len(key) : DigitValue(key[k]) < 10
    /\ Len(key) > 1 => key[1] # "0"

RECURSIVE IndexValue(_)
IndexValue(key) ==
    IF Len(key) = 0 THEN 0
    ELSE 10 * IndexValue(SubSeq(key, 1, Len(key) - 1)) + DigitValue(key[Len(key)])

\* claims[key] = value on a JavaScript object, as the list of its entries in
\* the order Object.keys and JSON.stringify go through them: an existing key
\* keeps its place; a new key that is an array index goes among the array
\* indices, which come first in ascending order; any other new key goes last.
Put(claims, key, value) ==
    IF \E k \in 1..Len(claims) : claims[k].key = key
    THEN [k \in 1..Len(claims) |->
             IF claims[k].key = key THEN [key |-> key, value |-> value] ELSE claims[k]]
    ELSE IF IsArrayIndex(key)
    THEN LET before == Cardinality({k \in 1..Len(claims) :
                           /\ IsArrayIndex(claims[k].key)
                           /\ IndexValue(claims[k].key) < IndexValue(key)})
         IN  SubSeq(claims, 1, before) \o << [key |-> key, value |-> value] >>
                 \o SubSeq(claims, before + 1, Len(claims))
    ELSE Append(claims, [key |-> key, value |-> value])

--------------------------------------------------------------------------
(* claim_collector.ts: getClaimValue and collect as functions of a provider *)

RECURSIVE LocaleLoop(_, _, _, _, _)
\* The for loop of getClaimValue from locale k on, and the last resort after it.
LocaleLoop(answers, subject, name, claimLocales, k) ==
    IF k > Len(claimLocales) THEN Answer(answers, Query(subject, name, NoTag))
    ELSE LET value == Answer(answers, Query(subject, name, claimLocales[k]))
         IN  IF Truthy(value) THEN value
             ELSE LocaleLoop(answers, subject, name, claimLocales, k + 1)

getClaimValue(answers, subject, name, tag, claimLocales) ==
    IF isNotEmptyChars(tag) THEN Answer(answers, Query(subject, name, tag))
    ELSE IF isEmpty(claimLocales) THEN Answer(answers, Query(subject, name, NoTag))
    ELSE LocaleLoop(answers, subject, name, claimLocales.val, 1)

RECURSIVE CollectLoop(_, _, _, _, _, _)
\* The for loop of collect from claim name k on; `claims` is the object so far.
CollectLoop(answers, subject, claimNames, claimLocales, k, claims) ==
    IF k > Len(claimNames) THEN claims
    ELSE LET claimName == claimNames[k]
             parts     == SplitClaimName(claimName)
             value     == getClaimValue(answers, subject, parts.name, parts.tag,
                                        claimLocales)
             key       == IF endsWith(claimName, CLAIM_SEPARATOR)
                          THEN parts.name ELSE claimName
         IN  IF Len(claimName) = 0
                 THEN CollectLoop(answers, subject, claimNames, claimLocales, k + 1, claims)
             ELSE IF Len(parts.name) = 0
                 THEN CollectLoop(answers, subject, claimNames, claimLocales, k + 1, claims)
             ELSE IF value = Null
                 THEN CollectLoop(answers, subject, claimNames, claimLocales, k + 1, claims)
             ELSE CollectLoop(answers, subject, claimNames, claimLocales, k + 1,
                              Put(claims, key, value))

\* new ClaimCollector(provider, subject, claimNames, claimLocales).collect()
\* with a provider that returns from every call: None for null.
collect(answers, subject, claimNames, claimLocales) ==
    IF isEmpty(claimNames) THEN None
    ELSE LET claims == CollectLoop(answers, subject, claimNames.val,
                                   normalizeClaimLocales(claimLocales), 1, <<>>)
         IN  IF Len(claims) > 0 THEN Some(claims) ELSE None

--------------------------------------------------------------------------
(* claim_collector.ts: the collector as it runs, one provider call at a time *)

\* The constructor without the normalization of the claim locales.
ClaimCollector_RawLocales(subject, claimNames, claimLocales) ==
    [subject      |-> subject,
     claimNames   |-> claimNames,
     claimLocales |-> claimLocales,
     i |-> 1, j |-> 0, claims |-> <<>>]

\* The fields of a ClaimCollector after its constructor, and the position of
\* collect(): i is the claim name the loop is at, j the number of locales of
\* claimLocales already asked for it, claims the object built so far.
ClaimCollector(subject, claimNames, claimLocales) ==
    [subject      |-> subject,
     claimNames   |-> claimNames,
     claimLocales |-> normalizeClaimLocales(claimLocales),
     i |-> 1, j |-> 0, claims |-> <<>>]

NoCollector ==
    [subject |-> Null, claimNames |-> None, claimLocales |-> None,
     i |-> 0, j |-> 0, claims |-> <<>>]

Names(cc) == IF cc.claimNames.some THEN cc.claimNames.val ELSE <<>>

RECURSIVE SkipFrom(_, _)
\* The first claim name at or after i that collect() does not skip before
\* asking the provider, or Len + 1.
SkipFrom(names, i) ==
    IF i > Len(names) THEN i
    ELSE IF Len(names[i]) = 0 THEN SkipFrom(names, i + 1)
    ELSE IF Len(SplitClaimName(names[i]).name) = 0 THEN SkipFrom(names, i + 1)
    ELSE i

CurrentIdx(cc) == SkipFrom(Names(cc), cc.i)

\* collect() has left its loop (or never entered it).
LoopEnded(cc) == CurrentIdx(cc) > Len(Names(cc))

CurrentName(cc) == Names(cc)[CurrentIdx(cc)]

\* getClaimValue is inside its for loop over claimLocales.
InLocaleLoop(cc) ==
    /\ ~isNotEmptyChars(SplitClaimName(CurrentName(cc)).tag)
    /\ ~isEmpty(cc.claimLocales)
    /\ cc.j < Len(cc.claimLocales.val)

\* getClaimValue with the claim locales looked at before the language tag.
PendingQuery_LocalesFirst(cc) ==
    LET parts == SplitClaimName(CurrentName(cc))
    IN  IF ~isEmpty(cc.claimLocales) /\ cc.j < Len(cc.claimLocales.val)
            THEN Query(cc.subject, parts.name, cc.claimLocales.val[cc.j + 1])
        ELSE IF isNotEmptyChars(parts.tag) THEN Query(cc.subject, parts.name, parts.tag)
        ELSE Query(cc.subject, parts.name, NoTag)

\* The next call getClaimValue makes on the provider.
PendingQuery(cc) ==
    LET parts == SplitClaimName(CurrentName(cc))
    IN  IF isNotEmptyChars(parts.tag) THEN Query(cc.subject, parts.name, parts.tag)
        ELSE IF isEmpty(cc.claimLocales) THEN Query(cc.subject, parts.name, NoTag)
        ELSE IF cc.j < Len(cc.claimLocales.val)
            THEN Query(cc.subject, parts.name, cc.claimLocales.val[cc.j + 1])
        ELSE Query(cc.subject, parts.name, NoTag)

\* if (value) return value;
LocaleHit(value) == Truthy(value)

\* The collector after the provider returned `value` for PendingQuery(cc).
Returned(cc, value) ==
    LET claimName == CurrentName(cc)
        parts     == SplitClaimName(claimName)
        key       == IF endsWith(claimName, CLAIM_SEPARATOR) THEN parts.name ELSE claimName
    IN  IF InLocaleLoop(cc) /\ ~LocaleHit(value)
        THEN [cc EXCEPT !.i = CurrentIdx(cc), !.j = cc.j + 1]
        ELSE [cc EXCEPT !.i = CurrentIdx(cc) + 1, !.j = 0,
                        !.claims = IF value = Null THEN @ ELSE Put(@, key, value)]

\* return claims, also when it has no key.
CollectResult_AlwaysMapping(cc) == Some(cc.claims)

\* return Object.keys(claims).length > 0 ? claims : null
CollectResult(cc) == IF Len(cc.claims) > 0 THEN Some(cc.claims) ELSE None

--------------------------------------------------------------------------
(* response_util.ts and base_req_handler.ts: what a handler writes *)

StatusOK == 200

StatusNoContent == 204

StatusFound == 302

StatusBadRequest == 400

StatusUnauthorized == 401

StatusForbidden == 403

StatusInternalServerError == 500

\* ctx.response before any helper has written to it.
NoResponse == [status |-> 0, by |-> "none"]

internalServerError == [status |-> StatusInternalServerError, by |-> "internalServerError"]

badRequest == [status |-> StatusBadRequest, by |-> "badRequest"]

location == [status |-> StatusFound, by |-> "location"]

okHtmlContent == [status |-> StatusOK, by |-> "okHtmlContent"]

unknownAction == [internalServerError EXCEPT !.by = "unknownAction"]

invalidAction == [internalServerError EXCEPT !.by = "invalidAction"]

\* The body internalServerErrorOnApiCallFailure builds from the exception e:
\* a JSON text with the error code server_error and, as its message,
\* e.responseBody || e.message.
ServerErrorJson ==
    "{\"error_code\":\"server_error\",\"error_message\":\"${e.responseBody || e.message}\"}"

internalServerErrorOnApiCallFailure ==
    [status |-> StatusInternalServerError,
     by     |-> "internalServerErrorOnApiCallFailure",
     body   |-> ServerErrorJson]

okJson == [status |-> StatusOK, by |-> "okJson"]

unauthorized == [status |-> StatusUnauthorized, by |-> "unauthorized"]

\* buildResponse(ctx, Status.OK)
noContent == [status |-> StatusOK, by |-> "noContent"]

\* wwwAuthenticate(ctx, status, challenge)
wwwAuthenticate(status, challenge) ==
    [status |-> status, by |-> "wwwAuthenticate", challenge |-> challenge]

--------------------------------------------------------------------------
(* auth_req_base_handler.ts: /auth/authorization/issue and /fail *)

\* What a call of the Authlete API ends with: an action of the response, an
\* action outside the enumerated ones, or an exception.
ApiOutcomes ==
    {"INTERNAL_SERVER_ERROR", "BAD_REQUEST", "LOCATION", "FORM", "UNKNOWN", Throws}

\* The switch of authorizationIssue and of authorizationFail, and the catch of
\* callAuthorizationIssue and callAuthorizationFail.
Dispatch(outcome) ==
    CASE outcome = Throws                  -> internalServerErrorOnApiCallFailure
      [] outcome = "INTERNAL_SERVER_ERROR" -> internalServerError
      [] outcome = "BAD_REQUEST"           -> badRequest
      [] outcome = "LOCATION"              -> location
      [] outcome = "FORM"                  -> okHtmlContent
      [] OTHER                             -> unknownAction

\* stringfyJson(claims): the JSON text of the object, or null.
stringfyJson(claims) == IF claims.some THEN Some([json |-> claims.val]) ELSE None

createAuthorizationIssueRequest_AcrFirst(ticket, subject, authTime, acr, sub, claims, properties, scopes) ==
    [ticket     |-> ticket,
     subject    |-> subject,
     authTime   |-> authTime,
     sub        |-> IF isNotEmpty(sub) THEN sub ELSE Undefined,
     acr        |-> IF isNotEmpty(acr) THEN acr ELSE Undefined,
     claims     |-> stringfyJson(claims),
     properties |-> IF ~isEmpty(properties) THEN properties ELSE None,
     scopes     |-> IF ~isEmpty(scopes) THEN scopes ELSE None]

\* A field the request leaves unset is Undefined (a string) or None (an array
\* or the claims text).
createAuthorizationIssueRequest(ticket, subject, authTime, sub, acr, claims, properties, scopes) ==
    [ticket     |-> ticket,
     subject    |-> subject,
     authTime   |-> authTime,
     sub        |-> IF isNotEmpty(sub) THEN sub ELSE Undefined,
     acr        |-> IF isNotEmpty(acr) THEN acr ELSE Undefined,
     claims     |-> stringfyJson(claims),
     properties |-> IF ~isEmpty(properties) THEN properties ELSE None,
     scopes     |-> IF ~isEmpty(scopes) THEN scopes ELSE None]

\* The request callAuthorizationIssue sends: its arguments, in its order,
\* handed on to createAuthorizationIssueRequest.
callAuthorizationIssue(ticket, subject, authTime, acr, sub, claims, properties, scopes) ==
    createAuthorizationIssueRequest(
        ticket, subject, authTime, acr, sub, claims, properties, scopes)

\* The request authorizationIssue sends: its arguments, in its order, handed on
\* to callAuthorizationIssue.
authorizationIssue(ticket, subject, authTime, acr, sub, claims, properties, scopes) ==
    callAuthorizationIssue(
        ticket, subject, authTime, acr, sub, claims, properties, scopes)

createAuthorizationFailRequest_Swapped(ticket, reason) ==
    [ticket |-> reason, reason |-> ticket]

createAuthorizationFailRequest(ticket, reason) ==
    [ticket |-> ticket, reason |-> reason]

\* The request authorizationFail sends through callAuthorizationFail.
authorizationFail(ticket, reason) == createAuthorizationFailRequest(ticket, reason)

IssueApi == "/auth/authorization/issue"

FailApi == "/auth/authorization/fail"

--------------------------------------------------------------------------
(* The state of one request *)

VARIABLES
    handler,    \* the entry point that runs: "NoInteraction", "Decision", "Token", ...
    response,   \* the API response the handler works on (for "Response": ctx.response
                \* before the last helper call)
    params,     \* the parameters given to handle (for "Response": the helper calls made)
    pc,         \* where the handler is
    locals,     \* the handler's local constants, as far as they are set
    now,        \* Date.now() as checkMaxAge read it, in milliseconds
    spiCalls,   \* the SPI methods called so far, in order
    cc,         \* the ClaimCollector and the position of its collect()
    provider,   \* the answers the claim provider has given: a set of [q, v]
    queries,    \* the calls made on the claim provider, in order
    apiCalls,   \* the calls of the Authlete API, in order: [api, request, outcome]
    http,       \* the response written to ctx.response
    thrown      \* an exception has left handle()

vars ==
    <<handler, response, params, pc, locals, now, spiCalls, cc, provider,
      queries, apiCalls, http, thrown>>

\* authenticated and authorized hold what isUserAuthenticated() and
\* isClientAuthorized() returned; reason is the reason handed to
\* authorizationFail.
NoLocals ==
    [authenticated |-> FALSE, authorized |-> FALSE, authTime |-> 0,
     subject |-> Null, acr |-> Null, sub |-> Null, claims |-> None,
     reason |-> "none"]

--------------------------------------------------------------------------
(* The inputs of the model *)

\* The longest list of requested claim names.
MaxClaimNames == 2

Tickets == {"ticket-1", "ticket-2"}

MaxAges == {0, 3600}

\* getUserAuthenticatedAt(), in seconds: 3601, 3600 and 3599 seconds before
\* the second 10000.
AuthTimes == {6399, 6400, 6401}

\* Date.now(), in milliseconds: the last millisecond before the second 10000
\* and its first one.
Nows == {9999999, 10000000}

RequestedSubjects == {Null, "", "alice"}

UserSubjects == {Null, "alice", "Alice"}

AcrLists == {None, Some(<<>>), Some(<<"urn:a">>), Some(<<"urn:c", "urn:a">>)}

UserAcrs == {Null, "urn:a", "urn:b"}

Subs == {Null, "pairwise-1"}

\* The values a claim provider answers with: every one of them when a
\* ClaimCollector is run on its own, three of them under a handler.
ClaimValues == {Null, Undefined, "", JsZero, "V1"}

HandlerClaimValues == {Null, "", "V1"}

ClaimNameStrings ==
    { <<>>, <<"n">>, <<"n", "#">>, <<"n", "#", "j">>, <<"n", "#", "j", "#">>,
      <<"#", "j">> }

EN_US == <<"e", "n", "-", "U", "S">>

EN == <<"e", "n">>

\* The claims_locales a ClaimCollector is built with when run on its own.
CollectorClaimLocales ==
    { None, Some(<<>>), Some(<< <<>> >>), Some(<<EN>>), Some(<<EN_US, EN>>),
      Some(<< <<>>, EN, <<"E", "N">>, EN_US >>) }

\* The longest list of claim locales given to normalizeClaimLocales on its own.
MaxLocales == 3

\* The entries of those lists: the empty string, a locale in two casings,
\* and another locale.
LocaleStrings == { <<>>, EN, <<"E", "N">>, <<"j", "a">> }

\* Every list over S of length 0..n.
RECURSIVE ListsUpTo(_, _)
ListsUpTo(S, n) ==
    IF n = 0 THEN { <<>> }
    ELSE LET shorter == ListsUpTo(S, n - 1)
         IN  shorter \cup { Append(l, x) : l \in shorter, x \in S }

Optional(lists) == {None} \cup { Some(l) : l \in lists }

--------------------------------------------------------------------------
(* Steps shared by the handlers *)

\* SpiThrows with a catch around the SPI call, written like the catch around
\* an Authlete API call: 500 Internal Server Error and a normal return.
SpiThrows_Caught(methods) ==
    /\ spiCalls' = spiCalls \o methods
    /\ http' = internalServerErrorOnApiCallFailure
    /\ pc' = "done"
    /\ UNCHANGED <<handler, response, params, locals, now, cc, provider,
                   queries, apiCalls, thrown>>

\* An SPI method throws: nothing in the handlers catches it, so the exception
\* leaves handle() there and then.
SpiThrows(methods) ==
    /\ spiCalls' = spiCalls \o methods
    /\ thrown' = TRUE
    /\ pc' = "done"
    /\ UNCHANGED <<handler, response, params, locals, now, cc, provider,
                   queries, apiCalls, http>>

\* await authorizationFail(this.api, ctx, ticket, reason), then return.
GoFail(reason) ==
    /\ locals' = [locals EXCEPT !.reason = reason]
    /\ pc' = "authorizationFail"

\* One call getUserClaimValue of the collect() that is running. The provider
\* answers a call it has answered before with the same value. An exception
\* of the provider leaves the handler, except in createUserInfoIssueRequest,
\* which callUserInfoIssue calls inside its try block.
ProviderCall ==
    /\ pc = "collect"
    /\ ~LoopEnded(cc)
    /\ LET q == PendingQuery(cc)
       IN  /\ queries' = Append(queries, q)
           /\ \/ /\ \E v \in (IF handler = "Collector" THEN ClaimValues
                                                         ELSE HandlerClaimValues) :
                       /\ (\E a \in provider : a.q = q) => v = Answer(provider, q)
                       /\ provider' = provider \cup {[q |-> q, v |-> v]}
                       /\ cc' = Returned(cc, v)
                 /\ UNCHANGED <<pc, thrown, http>>
              \/ /\ ~(\E a \in provider : a.q = q)
                 /\ IF handler = "UserInfo"
                    THEN http' = internalServerErrorOnApiCallFailure /\ UNCHANGED thrown
                    ELSE thrown' = TRUE /\ UNCHANGED http
                 /\ pc' = "done"
                 /\ UNCHANGED <<provider, cc>>
    /\ UNCHANGED <<handler, response, params, locals, now, spiCalls, apiCalls>>

\* collect() returns; then getProperties() and getScopes(), which the model
\* lets return null or throw.
CollectReturn ==
    /\ pc = "collect"
    /\ handler \in {"NoInteraction", "Decision"}
    /\ LoopEnded(cc)
    /\ \/ /\ locals' = [locals EXCEPT !.claims = CollectResult(cc)]
          /\ spiCalls' = spiCalls \o <<"getProperties", "getScopes">>
          /\ pc' = "authorizationIssue"
          /\ UNCHANGED <<handler, response, params, now, cc, provider, queries,
                         apiCalls, http, thrown>>
       \/ SpiThrows(<<"getProperties">>)
       \/ SpiThrows(<<"getProperties", "getScopes">>)

\* await authorizationIssue(api, ctx, ticket, subject, authTime, sub, acr,
\* claims, properties, scopes), as issue() and authorize() both write it.
AuthorizationIssue ==
    /\ pc = "authorizationIssue"
    /\ LET ticket == IF handler = "Decision" THEN params.ticket ELSE response.ticket
       IN  \E outcome \in ApiOutcomes :
               /\ apiCalls' = Append(apiCalls,
                      [api |-> IssueApi,
                       request |-> authorizationIssue(ticket, locals.subject,
                                       locals.authTime, locals.sub, locals.acr,
                                       locals.claims, None, None),
                       outcome |-> outcome])
               /\ http' = Dispatch(outcome)
    /\ pc' = "done"
    /\ UNCHANGED <<handler, response, params, locals, now, spiCalls, cc, provider,
                   queries, thrown>>

\* await authorizationFail(api, ctx, ticket, reason).
AuthorizationFail ==
    /\ pc = "authorizationFail"
    /\ LET ticket == IF handler = "Decision" THEN params.ticket ELSE response.ticket
       IN  \E outcome \in ApiOutcomes :
               /\ apiCalls' = Append(apiCalls,
                      [api |-> FailApi,
                       request |-> authorizationFail(ticket, locals.reason),
                       outcome |-> outcome])
               /\ http' = Dispatch(outcome)
    /\ pc' = "done"
    /\ UNCHANGED <<handler, response, params, locals, now, spiCalls, cc, provider,
                   queries, thrown>>

--------------------------------------------------------------------------
(* NoInteractionHandler.handle *)

\* NiHandle with Check 1 left out: the result of isUserAuthenticated() is
\* not looked at.
NiHandle_NoAuthenticationCheck ==
    /\ handler = "NoInteraction"
    /\ pc = "handle"
    /\ IF response.action # "NO_INTERACTION"
       THEN /\ http' = invalidAction
            /\ pc' = "done"
            /\ UNCHANGED <<handler, response, params, locals, now, spiCalls, cc,
                           provider, queries, apiCalls, thrown>>
       ELSE \/ SpiThrows(<<"isUserAuthenticated">>)
            \/ /\ \E isUserAuthenticated \in BOOLEAN :
                     /\ pc' = "checkMaxAge"
                     /\ locals' = [locals EXCEPT !.authenticated = isUserAuthenticated]
               /\ spiCalls' = Append(spiCalls, "isUserAuthenticated")
               /\ UNCHANGED <<handler, response, params, now, cc, provider,
                              queries, apiCalls, http, thrown>>

\* The action test and Check 1, end-user authentication.
NiHandle ==
    /\ handler = "NoInteraction"
    /\ pc = "handle"
    /\ IF response.action # "NO_INTERACTION"
       THEN /\ http' = invalidAction
            /\ pc' = "done"
            /\ UNCHANGED <<handler, response, params, locals, now, spiCalls, cc,
                           provider, queries, apiCalls, thrown>>
       ELSE \/ SpiThrows(<<"isUserAuthenticated">>)
            \/ /\ \E isUserAuthenticated \in BOOLEAN :
                     IF ~isUserAuthenticated
                     THEN GoFail("NOT_LOGGED_IN")
                     ELSE /\ pc' = "checkMaxAge"
                          /\ locals' = [locals EXCEPT !.authenticated = TRUE]
               /\ spiCalls' = Append(spiCalls, "isUserAuthenticated")
               /\ UNCHANGED <<handler, response, params, now, cc, provider,
                              queries, apiCalls, http, thrown>>

\* getUserAuthenticatedAt() and Check 2, max age. Date.now() is read only
\* when a maximum authentication age is requested.
NiCheckMaxAge ==
    /\ handler = "NoInteraction"
    /\ pc = "checkMaxAge"
    /\ \/ SpiThrows(<<"getUserAuthenticatedAt">>)
       \/ /\ \E authTime \in AuthTimes :
             \E nowMillis \in (IF response.maxAge = 0 THEN {now} ELSE Nows) :
                /\ now' = nowMillis
                /\ IF ~checkMaxAge(response, authTime, nowMillis)
                   THEN locals' = [locals EXCEPT !.authTime = authTime,
                                                 !.reason = "EXCEEDS_MAX_AGE"]
                        /\ pc' = "authorizationFail"
                   ELSE locals' = [locals EXCEPT !.authTime = authTime]
                        /\ pc' = "checkSubject"
          /\ spiCalls' = Append(spiCalls, "getUserAuthenticatedAt")
          /\ UNCHANGED <<handler, response, params, cc, provider, queries,
                         apiCalls, http, thrown>>

\* getUserSubject() and Check 3, subject.
NiCheckSubject ==
    /\ handler = "NoInteraction"
    /\ pc = "checkSubject"
    /\ \/ SpiThrows(<<"getUserSubject">>)
       \/ /\ \E subject \in UserSubjects :
                IF ~checkSubject(response, subject)
                THEN locals' = [locals EXCEPT !.subject = subject,
                                              !.reason = "DIFFERENT_SUBJECT"]
                     /\ pc' = "authorizationFail"
                ELSE locals' = [locals EXCEPT !.subject = subject]
                     /\ pc' = "checkAcr"
          /\ spiCalls' = Append(spiCalls, "getUserSubject")
          /\ UNCHANGED <<handler, response, params, now, cc, provider, queries,
                         apiCalls, http, thrown>>

\* getAcr() and Check 4, ACR.
NiCheckAcr ==
    /\ handler = "NoInteraction"
    /\ pc = "checkAcr"
    /\ \/ SpiThrows(<<"getAcr">>)
       \/ /\ \E acr \in UserAcrs :
                IF ~checkAcr(response, acr)
                THEN locals' = [locals EXCEPT !.acr = acr,
                                              !.reason = "ACR_NOT_SATISFIED"]
                     /\ pc' = "authorizationFail"
                ELSE locals' = [locals EXCEPT !.acr = acr]
                     /\ pc' = "issue"
          /\ spiCalls' = Append(spiCalls, "getAcr")
          /\ UNCHANGED <<handler, response, params, now, cc, provider, queries,
                         apiCalls, http, thrown>>

\* NiIssue with the ClaimCollector built as createUserInfoIssueRequest builds
\* it, without the claims locales.
NiIssue_NoClaimsLocales ==
    /\ handler = "NoInteraction"
    /\ pc = "issue"
    /\ \/ SpiThrows(<<"getSub">>)
       \/ /\ \E sub \in Subs : locals' = [locals EXCEPT !.sub = sub]
          /\ spiCalls' = Append(spiCalls, "getSub")
          /\ cc' = ClaimCollector(locals.subject, response.claims, None)
          /\ pc' = "collect"
          /\ UNCHANGED <<handler, response, params, now, provider, queries,
                         apiCalls, http, thrown>>

\* issue(): getSub(), then the ClaimCollector is built and collect() starts.
NiIssue ==
    /\ handler = "NoInteraction"
    /\ pc = "issue"
    /\ \/ SpiThrows(<<"getSub">>)
       \/ /\ \E sub \in Subs : locals' = [locals EXCEPT !.sub = sub]
          /\ spiCalls' = Append(spiCalls, "getSub")
          /\ cc' = ClaimCollector(locals.subject, response.claims, response.claimsLocales)
          /\ pc' = "collect"
          /\ UNCHANGED <<handler, response, params, now, provider, queries,
                         apiCalls, http, thrown>>

--------------------------------------------------------------------------
(* AuthorizationDecisionHandler.handle *)

\* isClientAuthorized(): a denial is reported with the reason DENIED.
DhHandle ==
    /\ handler = "Decision"
    /\ pc = "handle"
    /\ \/ SpiThrows(<<"isClientAuthorized">>)
       \/ /\ \E authorized \in BOOLEAN :
                IF ~authorized
                THEN GoFail("DENIED")
                ELSE /\ pc' = "decisionSubject"
                     /\ locals' = [locals EXCEPT !.authorized = TRUE]
          /\ spiCalls' = Append(spiCalls, "isClientAuthorized")
          /\ UNCHANGED <<handler, response, params, now, cc, provider, queries,
                         apiCalls, http, thrown>>

\* getUserSubject(): no subject is reported with the reason NOT_AUTHENTICATED.
DhSubject ==
    /\ handler = "Decision"
    /\ pc = "decisionSubject"
    /\ \/ SpiThrows(<<"getUserSubject">>)
       \/ /\ \E subject \in UserSubjects \cup {""} :
                IF ~isNotEmpty(subject)
                THEN locals' = [locals EXCEPT !.subject = subject,
                                              !.reason = "NOT_AUTHENTICATED"]
                     /\ pc' = "authorizationFail"
                ELSE locals' = [locals EXCEPT !.subject = subject]
                     /\ pc' = "authorize"
          /\ spiCalls' = Append(spiCalls, "getUserSubject")
          /\ UNCHANGED <<handler, response, params, now, cc, provider, queries,
                         apiCalls, http, thrown>>

\* authorize(): getUserAuthenticatedAt(), getSub(), getAcr(), then the
\* ClaimCollector is built and collect() starts.
DhAuthorize ==
    /\ handler = "Decision"
    /\ pc = "authorize"
    /\ \/ SpiThrows(<<"getUserAuthenticatedAt">>)
       \/ SpiThrows(<<"getUserAuthenticatedAt", "getSub">>)
       \/ SpiThrows(<<"getUserAuthenticatedAt", "getSub", "getAcr">>)
       \/ /\ \E authTime \in AuthTimes, sub \in Subs, acr \in UserAcrs :
                locals' = [locals EXCEPT !.authTime = authTime, !.sub = sub, !.acr = acr]
          /\ spiCalls' = spiCalls \o <<"getUserAuthenticatedAt", "getSub", "getAcr">>
          /\ cc' = ClaimCollector(locals.subject, params.claimNames, params.claimLocales)
          /\ pc' = "collect"
          /\ UNCHANGED <<handler, response, params, now, provider, queries,
                         apiCalls, http, thrown>>

--------------------------------------------------------------------------
(* A ClaimCollector used on its own *)

\* collect() returns to a caller that only keeps the result.
CollectorReturn ==
    /\ handler = "Collector"
    /\ pc = "collect"
    /\ LoopEnded(cc)
    /\ locals' = [locals EXCEPT !.claims = CollectResult(cc)]
    /\ pc' = "done"
    /\ UNCHANGED <<handler, response, params, now, spiCalls, cc, provider,
                   queries, apiCalls, http, thrown>>

--------------------------------------------------------------------------
(* Initial states and specifications *)

NoAuthorizationResponse ==
    [action |-> "none", ticket |-> Null, maxAge |-> 0, subject |-> Null,
     acrs |-> None, acrEssential |-> FALSE, claims |-> None, claimsLocales |-> None]

NoParams == [ticket |-> Null, claimNames |-> None, claimLocales |-> None]

\* The claims and claims_locales of the authorization requests the handlers
\* are run on.
HandlerClaims == { Some(<<<<"n">>>>), Some(<< <<"n", "#", "j">>, <<"n">> >>) }

HandlerClaimsLocales == { None, Some(<<EN_US, EN>>) }

\* The responses of /auth/authorization given to NoInteractionHandler.handle:
\* those with another action, which are not looked at further; those that
\* request no claims, with every combination of the fields the four checks
\* read; and those that request claims and leave the checks nothing to fail on.
AuthorizationResponses ==
    { [NoAuthorizationResponse EXCEPT !.action = "INTERACTION", !.ticket = t] :
          t \in Tickets }
    \cup
    [action : {"NO_INTERACTION"}, ticket : Tickets, maxAge : MaxAges,
     subject : RequestedSubjects, acrs : AcrLists, acrEssential : BOOLEAN,
     claims : {None}, claimsLocales : {None}]
    \cup
    [action : {"NO_INTERACTION"}, ticket : Tickets, maxAge : {0},
     subject : {Null}, acrs : {None}, acrEssential : {FALSE},
     claims : HandlerClaims, claimsLocales : HandlerClaimsLocales]

\* Params.from(info)
ParamsFrom(info) ==
    [ticket |-> info.ticket, claimNames |-> info.claims,
     claimLocales |-> info.claimsLocales]

DecisionParams ==
    { ParamsFrom(info) : info \in
        { r \in AuthorizationResponses : ~isEmpty(r.claims) => Len(r.claims.val) = 1 } }

Idle ==
    /\ locals = NoLocals
    /\ now = 0
    /\ spiCalls = <<>>
    /\ provider = {}
    /\ queries = <<>>
    /\ apiCalls = <<>>
    /\ http = NoResponse
    /\ thrown = FALSE

InitNoInteraction ==
    /\ handler = "NoInteraction"
    /\ response \in AuthorizationResponses
    /\ params = NoParams
    /\ pc = "handle"
    /\ cc = NoCollector
    /\ Idle

InitDecision ==
    /\ handler = "Decision"
    /\ response = NoAuthorizationResponse
    /\ params \in DecisionParams
    /\ pc = "handle"
    /\ cc = NoCollector
    /\ Idle

Init == InitNoInteraction \/ InitDecision

Next ==
    \/ NiHandle
    \/ NiCheckMaxAge
    \/ NiCheckSubject
    \/ NiCheckAcr
    \/ NiIssue
    \/ DhHandle
    \/ DhSubject
    \/ DhAuthorize
    \/ ProviderCall
    \/ CollectReturn
    \/ AuthorizationIssue
    \/ AuthorizationFail

Spec == Init /\ [][Next]_vars

\* A ClaimCollector right after its constructor, for every subject, list of
\* claim names and list of claim locales within the bounds.
InitCollector ==
    /\ handler = "Collector"
    /\ response = NoAuthorizationResponse
    /\ params \in [ticket : {Null},
                   claimNames : Optional(ListsUpTo(ClaimNameStrings, MaxClaimNames)),
                   claimLocales : CollectorClaimLocales]
    /\ pc = "collect"
    /\ \E subject \in {"alice"} :
           cc = ClaimCollector(subject, params.claimNames, params.claimLocales)
    /\ Idle

NextCollector == ProviderCall \/ CollectorReturn

SpecCollector == InitCollector /\ [][NextCollector]_vars

\* The constructor of ClaimCollector on its own: a value of claims_locales
\* arrives, a collector is constructed from it, and a second collector is
\* constructed from the claim locales the first one holds.
InitConstructor ==
    /\ handler = "Constructor"
    /\ \E claimsLocales \in Optional(ListsUpTo(LocaleStrings, MaxLocales)) :
           response = [NoAuthorizationResponse EXCEPT !.claimsLocales = claimsLocales]
    /\ params = ParamsFrom(response)
    /\ pc = "new"
    /\ cc = NoCollector
    /\ Idle

\* new ClaimCollector(provider, subject, claimNames, claimLocales)
Construct ==
    /\ handler = "Constructor"
    /\ pc = "new"
    /\ cc' = ClaimCollector("alice", params.claimNames, params.claimLocales)
    /\ pc' = "constructed"
    /\ UNCHANGED <<handler, response, params, locals, now, spiCalls, provider,
                   queries, apiCalls, http, thrown>>

\* new ClaimCollector(...) with the normalized claim locales as its input.
Renormalize ==
    /\ handler = "Constructor"
    /\ pc = "constructed"
    /\ params' = [params EXCEPT !.claimLocales = cc.claimLocales]
    /\ cc' = ClaimCollector(cc.subject, cc.claimNames, cc.claimLocales)
    /\ pc' = "renormalized"
    /\ UNCHANGED <<handler, response, locals, now, spiCalls, provider,
                   queries, apiCalls, http, thrown>>

NextConstructor == Construct \/ Renormalize

SpecConstructor == InitConstructor /\ [][NextConstructor]_vars

--------------------------------------------------------------------------
(* token_request_handler.ts: TokenRequestHandler.handle *)

TokenApi == "/auth/token"

TokenIssueApi == "/auth/token/issue"

TokenFailApi == "/auth/token/fail"

\* The actions a response of /auth/token comes with; UNKNOWN stands for any
\* value the handler has no name for.
TokenActions ==
    {"INVALID_CLIENT", "INTERNAL_SERVER_ERROR", "BAD_REQUEST", "PASSWORD", "OK",
     "TOKEN_EXCHANGE", "UNKNOWN"}

TokenIssueActions == {"INTERNAL_SERVER_ERROR", "OK", "UNKNOWN"}

TokenFailActions == {"INTERNAL_SERVER_ERROR", "BAD_REQUEST", "UNKNOWN"}

NoTokenResponse == [action |-> "none", ticket |-> Null]

TokenResponses == [action : TokenActions, ticket : Tickets]

\* The Authorization header of the token request: none, or Basic credentials.
Credentials == {None, Some([userId |-> "client-1", password |-> "secret-1"])}

\* spi.getProperties()
Properties == {None, Some(<<"property-1">>)}

\* spi.authenticateUser(username, password)
AuthenticatedUsers == {Null, "", "bob"}

\* subject is what authenticateUser returned; resolved tells that the
\* promise returned by handle() has resolved.
NoTokenLocals == [subject |-> Null, reason |-> "none", resolved |-> FALSE]

createTokenRequest(parameters, credentials, properties) ==
    [parameters   |-> parameters,
     clientId     |-> IF credentials.some THEN credentials.val.userId ELSE Undefined,
     clientSecret |-> IF credentials.some THEN credentials.val.password ELSE Undefined,
     properties   |-> IF isEmpty(properties) THEN None ELSE properties]

createTokenIssueRequest(ticket, subject, properties) ==
    [ticket |-> ticket, subject |-> subject,
     properties |-> IF isEmpty(properties) THEN None ELSE properties]

createTokenFailRequest(ticket, reason) == [ticket |-> ticket, reason |-> reason]

\* The switch of handle() for the actions that end in a response.
TokenDispatch(action) ==
    CASE action = "INVALID_CLIENT"        -> unauthorized
      [] action = "INTERNAL_SERVER_ERROR" -> internalServerError
      [] action = "BAD_REQUEST"           -> badRequest
      [] action = "OK"                    -> okJson
      [] OTHER                            -> unknownAction

\* The switch of tokenIssue().
TokenIssueDispatch(action) ==
    CASE action = "INTERNAL_SERVER_ERROR" -> internalServerError
      [] action = "OK"                    -> okJson
      [] OTHER                            -> unknownAction

\* The switch of tokenFail().
TokenFailDispatch(action) ==
    CASE action = "INTERNAL_SERVER_ERROR" -> internalServerError
      [] action = "BAD_REQUEST"           -> badRequest
      [] OTHER                            -> unknownAction

\* A catch block around an API call: 500 and the request is over.
ApiCallFailed ==
    /\ http' = internalServerErrorOnApiCallFailure
    /\ pc' = "done"
    /\ locals' = [locals EXCEPT !.resolved = TRUE]

\* callToken: createTokenRequest, which asks the SPI for the properties, and
\* api.token; either may throw inside the try block.
TkHandle ==
    /\ handler = "Token"
    /\ pc = "handle"
    /\ spiCalls' = Append(spiCalls, "getProperties")
    /\ \/ /\ ApiCallFailed
          /\ UNCHANGED <<response, apiCalls>>
       \/ \E properties \in Properties, outcome \in TokenActions \cup {Throws} :
             /\ apiCalls' = Append(apiCalls,
                    [api |-> TokenApi,
                     request |-> createTokenRequest(params.parameters,
                                                    params.credentials, properties),
                     outcome |-> outcome])
             /\ IF outcome = Throws
                THEN /\ ApiCallFailed
                     /\ UNCHANGED response
                ELSE /\ \E r \in TokenResponses : r.action = outcome /\ response' = r
                     /\ pc' = "dispatch"
                     /\ UNCHANGED <<locals, http>>
    /\ UNCHANGED <<handler, params, now, cc, provider, queries, thrown>>

\* switch (response.action): PASSWORD starts handlePassword, every other
\* action writes a response.
TkDispatch ==
    /\ handler = "Token"
    /\ pc = "dispatch"
    /\ IF response.action = "PASSWORD"
       THEN /\ pc' = "handlePassword"
            /\ UNCHANGED <<locals, http>>
       ELSE /\ http' = TokenDispatch(response.action)
            /\ pc' = "done"
            /\ locals' = [locals EXCEPT !.resolved = TRUE]
    /\ UNCHANGED <<handler, response, params, now, spiCalls, cc, provider,
                   queries, apiCalls, thrown>>

\* handlePassword without the test of what authenticateUser returned:
\* tokenIssue is called whatever the subject.
TkHandlePassword_SubjectNotTested ==
    /\ handler = "Token"
    /\ pc = "handlePassword"
    /\ spiCalls' = Append(spiCalls, "authenticateUser")
    /\ \E subject \in AuthenticatedUsers :
          locals' = [locals EXCEPT !.subject = subject, !.resolved = TRUE]
    /\ pc' = "tokenIssue"
    /\ UNCHANGED <<handler, response, params, now, cc, provider, queries,
                   apiCalls, http, thrown>>

\* handlePassword up to its first await: authenticateUser and the choice
\* between tokenIssue and tokenFail. handle() does not await handlePassword,
\* so its own promise resolves here.
TkHandlePassword ==
    /\ handler = "Token"
    /\ pc = "handlePassword"
    /\ spiCalls' = Append(spiCalls, "authenticateUser")
    /\ \E subject \in AuthenticatedUsers :
          /\ locals' = [locals EXCEPT
                 !.subject = subject,
                 !.reason = IF Truthy(subject) THEN @
                            ELSE "INVALID_RESOURCE_OWNER_CREDENTIALS",
                 !.resolved = TRUE]
          /\ pc' = IF Truthy(subject) THEN "tokenIssue" ELSE "tokenFail"
    /\ UNCHANGED <<handler, response, params, now, cc, provider, queries,
                   apiCalls, http, thrown>>

\* tokenIssue: createTokenIssueRequest, api.tokenIssue and the switch.
TkTokenIssue ==
    /\ handler = "Token"
    /\ pc = "tokenIssue"
    /\ spiCalls' = Append(spiCalls, "getProperties")
    /\ \/ /\ ApiCallFailed
          /\ UNCHANGED apiCalls
       \/ \E properties \in Properties, outcome \in TokenIssueActions \cup {Throws} :
             /\ apiCalls' = Append(apiCalls,
                    [api |-> TokenIssueApi,
                     request |-> createTokenIssueRequest(response.ticket,
                                                         locals.subject, properties),
                     outcome |-> outcome])
             /\ IF outcome = Throws
                THEN ApiCallFailed
                ELSE /\ http' = TokenIssueDispatch(outcome)
                     /\ pc' = "done"
                     /\ UNCHANGED locals
    /\ UNCHANGED <<handler, response, params, now, cc, provider, queries, thrown>>

\* tokenFail: api.tokenFail and the switch.
TkTokenFail ==
    /\ handler = "Token"
    /\ pc = "tokenFail"
    /\ \E outcome \in TokenFailActions \cup {Throws} :
          /\ apiCalls' = Append(apiCalls,
                 [api |-> TokenFailApi,
                  request |-> createTokenFailRequest(response.ticket, locals.reason),
                  outcome |-> outcome])
          /\ IF outcome = Throws
             THEN ApiCallFailed
             ELSE /\ http' = TokenFailDispatch(outcome)
                  /\ pc' = "done"
                  /\ UNCHANGED locals
    /\ UNCHANGED <<handler, response, params, now, spiCalls, cc, provider,
                   queries, thrown>>

\* No call made yet, nothing written yet.
Quiet ==
    /\ now = 0
    /\ spiCalls = <<>>
    /\ cc = NoCollector
    /\ provider = {}
    /\ queries = <<>>
    /\ apiCalls = <<>>
    /\ http = NoResponse
    /\ thrown = FALSE

InitToken ==
    /\ handler = "Token"
    /\ response = NoTokenResponse
    /\ params \in [parameters : {"grant_type=password"}, credentials : Credentials]
    /\ pc = "handle"
    /\ locals = NoTokenLocals
    /\ Quiet

--------------------------------------------------------------------------
(* access_token_validator.ts: AccessTokenValidator.validate *)

IntrospectionApi == "/auth/introspection"

IntrospectionActions ==
    {"INTERNAL_SERVER_ERROR", "BAD_REQUEST", "UNAUTHORIZED", "FORBIDDEN", "OK",
     "UNKNOWN"}

IntrospectionResponses ==
    [action : IntrospectionActions, responseContent : {"content-1"}]

AccessTokens == {Null, "", "token-1"}

RequiredScopes == {None, Some(<<>>), Some(<<"scope-1">>)}

RequiredSubjects == {Undefined, "alice"}

createIntrospectionRequest(accessToken, requiredScopes, requiredSubject) ==
    [token   |-> IF isNotEmpty(accessToken) THEN accessToken ELSE Undefined,
     scopes  |-> IF isEmpty(requiredScopes) THEN None ELSE requiredScopes,
     subject |-> IF isNotEmpty(requiredSubject) THEN requiredSubject ELSE Undefined]

determineStatusCode(action) ==
    CASE action = "INTERNAL_SERVER_ERROR" -> StatusInternalServerError
      [] action = "BAD_REQUEST"           -> StatusBadRequest
      [] action = "UNAUTHORIZED"          -> StatusUnauthorized
      [] action = "FORBIDDEN"             -> StatusForbidden
      [] OTHER                            -> StatusInternalServerError

\* deny of a result, as the response it writes when called.
\* The challenge of a failed call of /auth/introspection.
CHALLENGE ==
    "Bearer error=\"server_error\",error_description=\"Introspection API call failed.\""

denyDueToErr == wwwAuthenticate(StatusInternalServerError, CHALLENGE)

buildDenyBasedOnResponse(introspection) ==
    wwwAuthenticate(determineStatusCode(introspection.action),
                    introspection.responseContent)

\* An AccessTokenValidator.Result; a property left out of the object
\* literal is None.
NoResult ==
    [returned |-> FALSE, isValid |-> FALSE, introspectionResult |-> None,
     introspectionError |-> None, deny |-> None]

\* validate(): the API call, and the result built on what came of it.
Validate ==
    /\ handler = "Validator"
    /\ pc = "validate"
    /\ \/ /\ apiCalls' = Append(apiCalls,
                 [api |-> IntrospectionApi,
                  request |-> createIntrospectionRequest(params.accessToken,
                                  params.requiredScopes, params.requiredSubject),
                  outcome |-> Throws])
          /\ locals' = [NoResult EXCEPT
                 !.returned = TRUE,
                 !.introspectionError = Some("error-1"),
                 !.deny = Some(denyDueToErr)]
          /\ UNCHANGED response
       \/ \E introspection \in IntrospectionResponses :
             /\ apiCalls' = Append(apiCalls,
                    [api |-> IntrospectionApi,
                     request |-> createIntrospectionRequest(params.accessToken,
                                     params.requiredScopes, params.requiredSubject),
                     outcome |-> introspection.action])
             /\ response' = introspection
             /\ locals' =
                   IF introspection.action # "OK"
                   THEN [NoResult EXCEPT
                            !.returned = TRUE,
                            !.deny = Some(buildDenyBasedOnResponse(introspection))]
                   ELSE [NoResult EXCEPT
                            !.returned = TRUE,
                            !.isValid = TRUE,
                            !.introspectionResult = Some(introspection)]
    /\ pc' = "validated"
    /\ UNCHANGED <<handler, params, now, spiCalls, cc, provider, queries, http,
                   thrown>>

\* The caller calls result.deny(ctx) on a result that is not valid.
Deny ==
    /\ handler = "Validator"
    /\ pc = "validated"
    /\ ~locals.isValid
    /\ locals.deny.some
    /\ http' = locals.deny.val
    /\ pc' = "done"
    /\ UNCHANGED <<handler, response, params, locals, now, spiCalls, cc,
                   provider, queries, apiCalls, thrown>>

NoIntrospectionResponse == [action |-> "none", responseContent |-> Null]

InitValidator ==
    /\ handler = "Validator"
    /\ response = NoIntrospectionResponse
    /\ params \in [accessToken : AccessTokens, requiredScopes : RequiredScopes,
                    requiredSubject : RequiredSubjects]
    /\ pc = "validate"
    /\ locals = NoResult
    /\ Quiet

--------------------------------------------------------------------------
(* jwks_request_handler.ts: JwksRequestHandler.handle *)

JwksApi == "/service/jwks"

\* What api.getServiceJwks(pretty) returns: null, or the JWK Set document.
JwksDocuments == {Null, "{\"keys\":[]}"}

\* What came back from api.getServiceJwks: nothing yet, or nothing ever
\* when the call threw.
NoJwksResponse == [returned |-> FALSE, json |-> Null]

JwksHandle ==
    /\ handler = "Jwks"
    /\ pc = "handle"
    /\ \/ /\ apiCalls' = Append(apiCalls,
                 [api |-> JwksApi, request |-> params, outcome |-> Throws])
          /\ http' = internalServerErrorOnApiCallFailure
          /\ UNCHANGED response
       \/ \E json \in JwksDocuments :
             /\ apiCalls' = Append(apiCalls,
                    [api |-> JwksApi, request |-> params, outcome |-> "returned"])
             /\ response' = [returned |-> TRUE, json |-> json]
             /\ http' = IF json = Null THEN noContent ELSE okJson
    /\ pc' = "done"
    /\ locals' = [locals EXCEPT !.resolved = TRUE]
    /\ UNCHANGED <<handler, params, now, spiCalls, cc, provider, queries, thrown>>

InitJwks ==
    /\ handler = "Jwks"
    /\ response = NoJwksResponse
    /\ params \in [pretty : BOOLEAN]
    /\ pc = "handle"
    /\ locals = NoTokenLocals
    /\ Quiet

--------------------------------------------------------------------------
(* The token endpoint, the access token validator and the JWK Set endpoint *)

InitEndpoints == InitToken \/ InitValidator \/ InitJwks

NextEndpoints ==
    \/ TkHandle
    \/ TkDispatch
    \/ TkHandlePassword
    \/ TkTokenIssue
    \/ TkTokenFail
    \/ Validate
    \/ Deny
    \/ JwksHandle

SpecEndpoints == InitEndpoints /\ [][NextEndpoints]_vars

--------------------------------------------------------------------------
(* response_util.ts: two more of the ok responses *)

okJavascript == [status |-> StatusOK, by |-> "okJavascript"]

okJwt == [status |-> StatusOK, by |-> "okJwt"]

--------------------------------------------------------------------------
(* revocation_request_handler.ts: RevocationRequestHandler.handle *)

\* The switch of handle().
RevocationDispatch(action) ==
    CASE action = "INVALID_CLIENT"        -> unauthorized
      [] action = "INTERNAL_SERVER_ERROR" -> internalServerError
      [] action = "BAD_REQUEST"           -> badRequest
      [] action = "OK"                    -> okJavascript
      [] OTHER                            -> unknownAction

\* handle() with the API called outside a try block: the exception of the
\* call leaves handle().
RvHandle_Uncaught ==
    /\ handler = "Revocation"
    /\ pc = "handle"
    /\ \E outcome \in {"INVALID_CLIENT", "INTERNAL_SERVER_ERROR", "BAD_REQUEST", "OK",
                       "UNKNOWN", Throws} :
          /\ apiCalls' = Append(apiCalls,
                 [api |-> "/auth/revocation",
                  request |->
                      [parameters   |-> params.parameters,
                       clientId     |-> IF params.credentials.some
                                        THEN params.credentials.val.userId
                                        ELSE Undefined,
                       clientSecret |-> IF params.credentials.some
                                        THEN params.credentials.val.password
                                        ELSE Undefined],
                  outcome |-> outcome])
          /\ IF outcome = Throws
             THEN thrown' = TRUE /\ UNCHANGED http
             ELSE http' = RevocationDispatch(outcome) /\ UNCHANGED thrown
    /\ pc' = "done"
    /\ locals' = [locals EXCEPT !.resolved = TRUE]
    /\ UNCHANGED <<handler, response, params, now, spiCalls, cc, provider, queries>>

\* handle(): callRevocation with its catch, and the switch.
RvHandle ==
    /\ handler = "Revocation"
    /\ pc = "handle"
    /\ \E outcome \in {"INVALID_CLIENT", "INTERNAL_SERVER_ERROR", "BAD_REQUEST", "OK",
                       "UNKNOWN", Throws} :
          /\ apiCalls' = Append(apiCalls,
                 [api |-> "/auth/revocation",
                  request |->
                      [parameters   |-> params.parameters,
                       clientId     |-> IF params.credentials.some
                                        THEN params.credentials.val.userId
                                        ELSE Undefined,
                       clientSecret |-> IF params.credentials.some
                                        THEN params.credentials.val.password
                                        ELSE Undefined],
                  outcome |-> outcome])
          /\ http' = IF outcome = Throws THEN internalServerErrorOnApiCallFailure
                     ELSE RevocationDispatch(outcome)
    /\ pc' = "done"
    /\ locals' = [locals EXCEPT !.resolved = TRUE]
    /\ UNCHANGED <<handler, response, params, now, spiCalls, cc, provider, queries,
                   thrown>>

--------------------------------------------------------------------------
(* introspection_request_handler.ts: IntrospectionRequestHandler.handle *)

\* The switch of handle().
StandardIntrospectionDispatch(action) ==
    CASE action = "INTERNAL_SERVER_ERROR" -> internalServerError
      [] action = "BAD_REQUEST"           -> badRequest
      [] action = "OK"                    -> okJson
      [] OTHER                            -> unknownAction

\* handle(): callStandardIntrospection with its catch, and the switch.
SiHandle ==
    /\ handler = "StandardIntrospection"
    /\ pc = "handle"
    /\ \E outcome \in {"INTERNAL_SERVER_ERROR", "BAD_REQUEST", "OK", "UNKNOWN", Throws} :
          /\ apiCalls' = Append(apiCalls,
                 [api |-> "/auth/introspection/standard",
                  request |-> [parameters |-> params.parameters],
                  outcome |-> outcome])
          /\ http' = IF outcome = Throws THEN internalServerErrorOnApiCallFailure
                     ELSE StandardIntrospectionDispatch(outcome)
    /\ pc' = "done"
    /\ locals' = [locals EXCEPT !.resolved = TRUE]
    /\ UNCHANGED <<handler, response, params, now, spiCalls, cc, provider, queries,
                   thrown>>

--------------------------------------------------------------------------
(* configuration_request_handler.ts: ConfigurationRequestHandler.handle *)

\* handle(): api.getServiceConfiguration with its catch, then okJson.
ConfigurationHandle ==
    /\ handler = "Configuration"
    /\ pc = "handle"
    /\ \E outcome \in {"returned", Throws} :
          /\ apiCalls' = Append(apiCalls,
                 [api |-> "/service/configuration", request |-> params,
                  outcome |-> outcome])
          /\ http' = IF outcome = Throws THEN internalServerErrorOnApiCallFailure
                     ELSE okJson
    /\ pc' = "done"
    /\ locals' = [locals EXCEPT !.resolved = TRUE]
    /\ UNCHANGED <<handler, response, params, now, spiCalls, cc, provider, queries,
                   thrown>>

--------------------------------------------------------------------------
(* authorization_request_error_handler.ts: AuthorizationRequestErrorHandler.handle *)

\* The switch of handle().
AuthorizationErrorDispatch(action) ==
    CASE action = "INTERNAL_SERVER_ERROR" -> internalServerError
      [] action = "BAD_REQUEST"           -> badRequest
      [] action = "LOCATION"              -> location
      [] action = "FORM"                  -> okHtmlContent
      [] action = "INTERACTION"           -> invalidAction
      [] action = "NO_INTERACTION"        -> invalidAction
      [] OTHER                            -> unknownAction

\* handle(ctx, response): the switch on the action of the response of
\* /auth/authorization, with no call of the API.
AeHandle ==
    /\ handler = "AuthorizationError"
    /\ pc = "handle"
    /\ http' = AuthorizationErrorDispatch(response.action)
    /\ pc' = "done"
    /\ locals' = [locals EXCEPT !.resolved = TRUE]
    /\ UNCHANGED <<handler, response, params, now, spiCalls, cc, provider, queries,
                   apiCalls, thrown>>

--------------------------------------------------------------------------
(* userinfo_request_handler.ts: UserInfoRequestHandler.handle *)

CHALLENGE_ON_MISSING_ACCESS_TOKEN ==
    "Bearer error=\"invalid_token\",error_description=\"An access token must be sent as a Bearer Token. See OpenID Connect Core 1.0, 5.3.1. UserInfo Request for details.\""

\* The switch of handle() for the actions that end in a response.
UserInfoDispatch(action, responseContent) ==
    CASE action = "INTERNAL_SERVER_ERROR" ->
             wwwAuthenticate(StatusInternalServerError, responseContent)
      [] action = "BAD_REQUEST"  -> wwwAuthenticate(StatusBadRequest, responseContent)
      [] action = "UNAUTHORIZED" -> wwwAuthenticate(StatusUnauthorized, responseContent)
      [] action = "FORBIDDEN"    -> wwwAuthenticate(StatusForbidden, responseContent)
      [] OTHER                   -> unknownAction

\* The switch of getUserInfo() without its default branch doing anything
\* of its own: an action it has no case for is answered like JSON.
UserInfoIssueDispatch_NoDefault(action, responseContent) ==
    CASE action = "INTERNAL_SERVER_ERROR" ->
             wwwAuthenticate(StatusInternalServerError, responseContent)
      [] action = "BAD_REQUEST"  -> wwwAuthenticate(StatusBadRequest, responseContent)
      [] action = "UNAUTHORIZED" -> wwwAuthenticate(StatusUnauthorized, responseContent)
      [] action = "FORBIDDEN"    -> wwwAuthenticate(StatusForbidden, responseContent)
      [] action = "JWT"          -> okJwt
      [] OTHER                   -> okJson

\* The switch of getUserInfo().
UserInfoIssueDispatch(action, responseContent) ==
    CASE action = "INTERNAL_SERVER_ERROR" ->
             wwwAuthenticate(StatusInternalServerError, responseContent)
      [] action = "BAD_REQUEST"  -> wwwAuthenticate(StatusBadRequest, responseContent)
      [] action = "UNAUTHORIZED" -> wwwAuthenticate(StatusUnauthorized, responseContent)
      [] action = "FORBIDDEN"    -> wwwAuthenticate(StatusForbidden, responseContent)
      [] action = "JSON"         -> okJson
      [] action = "JWT"          -> okJwt
      [] OTHER                   -> unknownAction

\* The responses of /auth/userinfo.
UserInfoResponses ==
    [action : {"INTERNAL_SERVER_ERROR", "BAD_REQUEST", "UNAUTHORIZED", "FORBIDDEN",
               "OK", "UNKNOWN"},
     responseContent : {"content-1"}, token : {"token-1"}, subject : {"alice"},
     claims : {None} \cup HandlerClaims]

\* handle() with the access token compared with null only: an access
\* token that is undefined or empty goes to /auth/userinfo.
UiHandle_NullTokenOnly ==
    /\ handler = "UserInfo"
    /\ pc = "handle"
    /\ IF params.accessToken = Null
       THEN /\ http' = wwwAuthenticate(StatusBadRequest,
                                       CHALLENGE_ON_MISSING_ACCESS_TOKEN)
            /\ pc' = "done"
            /\ UNCHANGED <<response, apiCalls>>
       ELSE \E outcome \in {r.action : r \in UserInfoResponses} \cup {Throws} :
               /\ apiCalls' = Append(apiCalls,
                      [api |-> "/auth/userinfo",
                       request |->
                           [token |-> params.accessToken,
                            clientCertificate |->
                                IF Truthy(params.clientCertificate)
                                THEN params.clientCertificate ELSE Undefined],
                       outcome |-> outcome])
               /\ IF outcome = Throws
                  THEN /\ http' = internalServerErrorOnApiCallFailure
                       /\ pc' = "done"
                       /\ UNCHANGED response
                  ELSE \E r \in UserInfoResponses :
                          /\ r.action = outcome
                          /\ response' = r
                          /\ IF outcome = "OK"
                             THEN pc' = "getUserInfo" /\ UNCHANGED http
                             ELSE /\ http' = UserInfoDispatch(outcome, r.responseContent)
                                  /\ pc' = "done"
    /\ UNCHANGED <<handler, params, locals, now, spiCalls, cc, provider, queries,
                   thrown>>

\* handle(): the check of the access token, callUserInfo with its catch,
\* and the switch; OK goes on to getUserInfo.
UiHandle ==
    /\ handler = "UserInfo"
    /\ pc = "handle"
    /\ IF ~isNotEmpty(params.accessToken)
       THEN /\ http' = wwwAuthenticate(StatusBadRequest,
                                       CHALLENGE_ON_MISSING_ACCESS_TOKEN)
            /\ pc' = "done"
            /\ UNCHANGED <<response, apiCalls>>
       ELSE \E outcome \in {r.action : r \in UserInfoResponses} \cup {Throws} :
               /\ apiCalls' = Append(apiCalls,
                      [api |-> "/auth/userinfo",
                       request |->
                           [token |-> params.accessToken,
                            clientCertificate |->
                                IF Truthy(params.clientCertificate)
                                THEN params.clientCertificate ELSE Undefined],
                       outcome |-> outcome])
               /\ IF outcome = Throws
                  THEN /\ http' = internalServerErrorOnApiCallFailure
                       /\ pc' = "done"
                       /\ UNCHANGED response
                  ELSE \E r \in UserInfoResponses :
                          /\ r.action = outcome
                          /\ response' = r
                          /\ IF outcome = "OK"
                             THEN pc' = "getUserInfo" /\ UNCHANGED http
                             ELSE /\ http' = UserInfoDispatch(outcome, r.responseContent)
                                  /\ pc' = "done"
    /\ UNCHANGED <<handler, params, locals, now, spiCalls, cc, provider, queries,
                   thrown>>

\* createUserInfoIssueRequest up to collect(): getSub(), then the
\* ClaimCollector is built without claim locales. It runs inside the try
\* block of callUserInfoIssue, so an exception of getSub() is caught there.
UiGetUserInfo ==
    /\ handler = "UserInfo"
    /\ pc = "getUserInfo"
    /\ spiCalls' = Append(spiCalls, "getSub")
    /\ \/ /\ http' = internalServerErrorOnApiCallFailure
          /\ pc' = "done"
          /\ UNCHANGED <<locals, cc>>
       \/ /\ \E sub \in Subs : locals' = [locals EXCEPT !.subject = sub]
          /\ cc' = ClaimCollector(response.subject, response.claims, None)
          /\ pc' = "collect"
          /\ UNCHANGED http
    /\ UNCHANGED <<handler, response, params, now, provider, queries, apiCalls,
                   thrown>>

\* collect() returns: the rest of createUserInfoIssueRequest,
\* api.userInfoIssue with the catch of callUserInfoIssue, and the switch of
\* getUserInfo. locals.subject holds what getSub() returned.
UiIssue ==
    /\ handler = "UserInfo"
    /\ pc = "collect"
    /\ LoopEnded(cc)
    /\ \E outcome \in {"INTERNAL_SERVER_ERROR", "BAD_REQUEST", "UNAUTHORIZED",
                       "FORBIDDEN", "JSON", "JWT", "UNKNOWN", Throws} :
          /\ apiCalls' = Append(apiCalls,
                 [api |-> "/auth/userinfo/issue",
                  request |->
                      [token  |-> response.token,
                       sub    |-> IF isNotEmpty(locals.subject) THEN locals.subject
                                  ELSE Undefined,
                       claims |-> stringfyJson(CollectResult(cc))],
                  outcome |-> outcome])
          /\ http' = IF outcome = Throws THEN internalServerErrorOnApiCallFailure
                     ELSE UserInfoIssueDispatch(outcome, "content-2")
    /\ pc' = "done"
    /\ UNCHANGED <<handler, response, params, locals, now, spiCalls, cc, provider,
                   queries, thrown>>

--------------------------------------------------------------------------
(* Every request handler *)

\* The requests the handlers of this section are run on.
InitResources ==
    /\ \/ /\ handler \in {"Revocation", "StandardIntrospection"}
          /\ response = NoTokenResponse
          /\ params \in [parameters : {"token=token-1"}, credentials : Credentials]
       \/ /\ handler = "Configuration"
          /\ response = NoTokenResponse
          /\ params \in [pretty : BOOLEAN]
       \/ /\ handler = "AuthorizationError"
          /\ response \in [action : {"INTERNAL_SERVER_ERROR", "BAD_REQUEST", "LOCATION",
                                     "FORM", "INTERACTION", "NO_INTERACTION", "UNKNOWN"},
                           responseContent : {"content-1"}]
          /\ params = NoParams
       \/ /\ handler = "UserInfo"
          /\ response = NoTokenResponse
          /\ params \in [accessToken : {Undefined, Null, "", "token-1"},
                         clientCertificate : {Undefined, "certificate-1"}]
    /\ pc = "handle"
    /\ locals = NoTokenLocals
    /\ Quiet

InitHandlers == Init \/ InitEndpoints \/ InitResources

NextHandlers ==
    \/ Next
    \/ NextEndpoints
    \/ RvHandle
    \/ SiHandle
    \/ ConfigurationHandle
    \/ AeHandle
    \/ UiHandle
    \/ UiGetUserInfo
    \/ UiIssue

SpecHandlers == InitHandlers /\ [][NextHandlers]_vars

--------------------------------------------------------------------------
(* A ClaimCollector run on claim names with two separators or of white space *)

\* Requested claim names: plain, ending with the separator, tagged, with a
\* second separator in the tag, without a name part, one blank, one empty,
\* and one that is a decimal number.
SeparatorNames ==
    { <<"n">>, <<"n", "#">>, <<"n", "#", "j">>, <<"n", "#", "j", "#", "c">>,
      <<"#", "j">>, <<" ">>, <<>>, <<"1">> }

InitNames ==
    /\ handler = "Collector"
    /\ response = NoAuthorizationResponse
    /\ params \in [ticket : {Null},
                   claimNames : Optional(ListsUpTo(SeparatorNames, MaxClaimNames)),
                   claimLocales : {None, Some(<<EN>>)}]
    /\ pc = "collect"
    /\ cc = ClaimCollector("alice", params.claimNames, params.claimLocales)
    /\ Idle

SpecNames == InitNames /\ [][NextCollector]_vars

--------------------------------------------------------------------------
(* response_util.ts: the helpers as they write to ctx.response *)

StatusCreated == 201

StatusNotFound == 404

APPLICATION_JSON_UTF8 == "application/json; charset=utf-8"

\* ctx.response of a request nothing has written to: status 0 stands for a
\* status never set, Undefined for a body or a header never set.
NewResponse ==
    [status |-> 0, body |-> Undefined, cacheControl |-> Undefined,
     pragma |-> Undefined, contentType |-> Undefined,
     wwwAuthenticate |-> Undefined, location |-> Undefined]

\* setHeaders with the two cache headers set only along with a content type.
setHeaders_OnlyWithType(r, type) ==
    IF Truthy(type)
    THEN [r EXCEPT !.cacheControl = "no-store", !.pragma = "no-cache",
                   !.contentType = type]
    ELSE r

setHeaders(r, type) ==
    [r EXCEPT !.cacheControl = "no-store",
              !.pragma       = "no-cache",
              !.contentType  = IF Truthy(type) THEN type ELSE @]

\* buildResponse(ctx, status?, type?, body?); a status left out is 0, which
\* `if (status)` takes like undefined.
buildResponse(r, status, type, body) ==
    [setHeaders(r, type) EXCEPT
        !.status = IF status # 0 THEN status ELSE @,
        !.body   = IF Truthy(body) THEN body ELSE @]

\* ctx.response.redirect(url) of the web framework: the Location header, the
\* status 302 Found unless the status is a redirect status already, and a
\* short body that names the target, as HTML or as plain text.
redirect(r, url, acceptsHtml) ==
    [r EXCEPT !.location    = url,
              !.status      = IF @ \in {300, 301, 302, 303, 305, 307, 308} THEN @
                              ELSE StatusFound,
              !.contentType = IF acceptsHtml THEN "text/html; charset=UTF-8"
                              ELSE "text/plain; charset=UTF-8",
              !.body        = "Redirecting to " \o url]

\* One call of a helper on ctx.response r. A call is a record of the
\* helper's name and its arguments; an argument the helper does not take is
\* not read.
Respond(r, call) ==
    CASE call.helper = "ok" -> buildResponse(r, StatusOK, call.type, call.content)
      [] call.helper = "okJson" ->
             buildResponse(r, StatusOK, APPLICATION_JSON_UTF8, call.content)
      [] call.helper = "okHtml" ->
             [buildResponse(r, 0, Undefined, Undefined) EXCEPT !.body = "rendered view"]
      [] call.helper = "okHtmlContent" ->
             buildResponse(r, StatusOK, "text/html; charset=utf-8", call.content)
      [] call.helper = "okJavascript" ->
             buildResponse(r, StatusOK, "application/javascript; charset=utf-8",
                           call.content)
      [] call.helper = "okJwt" ->
             buildResponse(r, StatusOK, "application/jwt", call.content)
      [] call.helper = "created" ->
             buildResponse(r, StatusCreated, APPLICATION_JSON_UTF8, call.content)
      [] call.helper = "noContent" -> buildResponse(r, StatusOK, Undefined, Undefined)
      [] call.helper = "location" ->
             redirect(buildResponse(r, 0, Undefined, Undefined), call.content,
                      call.type = "html")
      [] call.helper = "badRequest" ->
             buildResponse(r, StatusBadRequest, APPLICATION_JSON_UTF8, call.content)
      [] call.helper = "unauthorized" ->
             [buildResponse(r, StatusUnauthorized, APPLICATION_JSON_UTF8, call.content)
                 EXCEPT !.wwwAuthenticate = "challenge-1"]
      [] call.helper = "forbidden" ->
             buildResponse(r, StatusForbidden, APPLICATION_JSON_UTF8, call.content)
      [] call.helper = "notFound" ->
             buildResponse(r, StatusNotFound, APPLICATION_JSON_UTF8, call.content)
      [] call.helper = "internalServerError" ->
             buildResponse(r, StatusInternalServerError,
                           IF call.type = Undefined THEN APPLICATION_JSON_UTF8
                           ELSE call.type,
                           call.content)
      [] call.helper = "wwwAuthenticate" ->
             [buildResponse(r, call.status, Undefined, Undefined)
                 EXCEPT !.wwwAuthenticate = "challenge-1"]
      [] call.helper = "buildResponse" ->
             buildResponse(r, call.status, call.type, call.content)

\* The most helper calls made on one ctx.response.
MaxWrites == 2

\* The calls of the helpers: each helper with an empty and a non-empty
\* content where it takes one, with and without a status and a type where it
\* takes them.
ResponseCalls ==
    [helper : {"okJson", "okHtmlContent", "okJavascript", "okJwt", "created",
               "badRequest", "forbidden", "notFound"},
     status : {0}, type : {Undefined}, content : {"", "body-1", "body-2"}]
    \cup [helper : {"ok", "internalServerError"}, status : {0},
          type : {Undefined, "", "text/plain"}, content : {"", "body-1"}]
    \cup [helper : {"unauthorized"}, status : {0}, type : {Undefined},
          content : {Undefined, "", "body-1"}]
    \cup [helper : {"noContent", "okHtml"}, status : {0}, type : {Undefined},
          content : {Undefined}]
    \cup [helper : {"location"}, status : {0}, type : {"html", "plain"},
          content : {"https://client.example/cb"}]
    \cup [helper : {"wwwAuthenticate"}, status : {0, StatusUnauthorized},
          type : {Undefined}, content : {Undefined}]
    \cup [helper : {"buildResponse"}, status : {0, StatusOK},
          type : {Undefined, "text/plain"}, content : {Undefined, "", "body-1"}]

\* A handler calls a helper: params holds the calls made so far, response
\* what ctx.response was before the last of them, http what it is now.
RespondStep ==
    /\ handler = "Response"
    /\ Len(params) < MaxWrites
    /\ \E call \in ResponseCalls :
          /\ params' = Append(params, call)
          /\ response' = http
          /\ http' = Respond(http, call)
    /\ UNCHANGED <<handler, pc, locals, now, spiCalls, cc, provider, queries,
                   apiCalls, thrown>>

InitResponse ==
    /\ handler = "Response"
    /\ response = NewResponse
    /\ http = NewResponse
    /\ params = <<>>
    /\ pc = "respond"
    /\ locals = NoTokenLocals
    /\ now = 0
    /\ spiCalls = <<>>
    /\ cc = NoCollector
    /\ provider = {}
    /\ queries = <<>>
    /\ apiCalls = <<>>
    /\ thrown = FALSE

SpecResponse == InitResponse /\ [][RespondStep]_vars

--------------------------------------------------------------------------
(* What the properties below read off a state *)

IsPrefix(p, q) == Len(p) <= Len(q) /\ p = SubSeq(q, 1, Len(p))

\* The SPI methods NoInteractionHandler.handle calls, in the order of the code.
NiSpiOrder ==
    <<"isUserAuthenticated", "getUserAuthenticatedAt", "getUserSubject", "getAcr",
      "getSub", "getProperties", "getScopes">>

NoInteractionRun == handler = "NoInteraction" /\ response.action = "NO_INTERACTION"

\* The n-th SPI call of the run has returned.
SpiReturned(n) == Len(spiCalls) >= n /\ ~(thrown /\ Len(spiCalls) = n)

\* authorizationFail has been called, or is the next thing the handler does.
Failing == pc = "authorizationFail" \/ (apiCalls # <<>> /\ apiCalls[1].api = FailApi)

IssueSent == apiCalls # <<>> /\ apiCalls[1].api = IssueApi

FailSent == apiCalls # <<>> /\ apiCalls[1].api = FailApi

\* The four checks as the specification words them, on the facts the run read.
AuthenticationHolds == locals.authenticated

MaxAgeHolds ==
    response.maxAge = 0 \/ now < (locals.authTime + response.maxAge) * 1000

SubjectHolds ==
    response.subject \in {Null, ""} \/ response.subject = locals.subject

AcrHolds ==
    \/ ~response.acrs.some
    \/ response.acrs.val = <<>>
    \/ \E k \in DOMAIN response.acrs.val : response.acrs.val[k] = locals.acr
    \/ ~response.acrEssential

--------------------------------------------------------------------------
(* C1 *)

\* C1: in NoInteractionHandler.handle with action NO_INTERACTION the SPI
\* methods are called in the order authentication, authentication time,
\* subject, ACR (then those of issuance); a failure is reported with the
\* reason of the first check that fails on the facts read, right after the
\* getter of that check and with no later getter called; issuance is reached
\* only with all four checks holding; and a run reports a failure or issues,
\* never both. With isUserAuthenticated() false the reason is NOT_LOGGED_IN
\* whatever max age, subject and ACRs are requested.
C1_ChecksInOrder ==
    NoInteractionRun =>
        /\ IsPrefix(spiCalls, NiSpiOrder)
        /\ Len(apiCalls) <= 1
        /\ Failing =>
              /\ ~IssueSent
              /\ locals.reason =
                    (IF ~AuthenticationHolds THEN "NOT_LOGGED_IN"
                     ELSE IF ~MaxAgeHolds THEN "EXCEEDS_MAX_AGE"
                     ELSE IF ~SubjectHolds THEN "DIFFERENT_SUBJECT"
                     ELSE "ACR_NOT_SATISFIED")
              /\ ~AuthenticationHolds \/ ~MaxAgeHolds \/ ~SubjectHolds \/ ~AcrHolds
              /\ Len(spiCalls) =
                    (CASE locals.reason = "NOT_LOGGED_IN"     -> 1
                       [] locals.reason = "EXCEEDS_MAX_AGE"   -> 2
                       [] locals.reason = "DIFFERENT_SUBJECT" -> 3
                       [] locals.reason = "ACR_NOT_SATISFIED" -> 4
                       [] OTHER                               -> 0)
              /\ FailSent => apiCalls[1].request.reason = locals.reason
        /\ (pc \in {"issue", "collect", "authorizationIssue"} \/ IssueSent) =>
              /\ AuthenticationHolds /\ MaxAgeHolds /\ SubjectHolds /\ AcrHolds
              /\ ~FailSent
        /\ (SpiReturned(1) /\ ~locals.authenticated) =>
              /\ Failing
              /\ locals.reason = "NOT_LOGGED_IN"

\* A failure reported as NOT_LOGGED_IN for a request that also asks for a
\* maximum age, a subject and an essential ACR.
C1_Witness ==
    /\ NoInteractionRun
    /\ FailSent
    /\ apiCalls[1].request.reason = "NOT_LOGGED_IN"
    /\ response.maxAge # 0
    /\ response.subject = "alice"
    /\ response.acrs = Some(<<"urn:a">>)
    /\ response.acrEssential

--------------------------------------------------------------------------
(* C2 *)

\* The run has answered Check 4: getAcr() returned and checkAcr was applied.
AcrChecked == NoInteractionRun /\ SpiReturned(4)

AcrRejected == locals.reason = "ACR_NOT_SATISFIED"

AcrRequested == response.acrs.some /\ Len(response.acrs.val) > 0

AcrMatches ==
    /\ response.acrs.some
    /\ \E k \in DOMAIN response.acrs.val : response.acrs.val[k] = locals.acr

\* C2: once the first three checks have passed and getAcr() has returned,
\* the ACR check passes when no ACR is requested (absent or empty list) and
\* when the user's ACR equals an entry of the list, whatever acrEssential is;
\* when no entry matches, ACR_NOT_SATISFIED is reported if acrEssential is
\* true and the handler goes on to claim collection and issuance if it is
\* false. A run that passes the check and ends without an exception has
\* called /auth/authorization/issue and not /auth/authorization/fail.
C2_AcrCheck ==
    AcrChecked =>
        /\ ~AcrRequested => ~AcrRejected
        /\ AcrMatches => ~AcrRejected
        /\ (AcrRequested /\ ~AcrMatches) => (AcrRejected <=> response.acrEssential)
        /\ AcrRejected => (Failing /\ ~IssueSent)
        /\ ~AcrRejected =>
              /\ pc \in {"issue", "collect", "authorizationIssue", "done"}
              /\ ~FailSent
              /\ (pc = "done" /\ ~thrown) => IssueSent

\* No requested ACR matches, acrEssential is false, and the run has issued.
C2_Witness ==
    /\ AcrChecked
    /\ AcrRequested
    /\ ~AcrMatches
    /\ ~response.acrEssential
    /\ IssueSent

--------------------------------------------------------------------------
(* C3 *)

\* The run has answered Check 2: getUserAuthenticatedAt() returned and
\* checkMaxAge was applied.
MaxAgeChecked == NoInteractionRun /\ SpiReturned(2)

MaxAgeRejected == locals.reason = "EXCEEDS_MAX_AGE"

\* The instant the authentication expires, in milliseconds since the epoch.
ExpiresAtMillis == (locals.authTime + response.maxAge) * 1000

\* C3: the max-age check passes for maxAge 0 whatever the authentication
\* time and the clock are; otherwise it passes exactly when the current time
\* is strictly before authenticatedAt + maxAge seconds, so EXCEEDS_MAX_AGE is
\* reported at that very instant and at every later one. With maxAge 3600 and
\* the clock at second 10000, an authentication 3601 seconds old is denied
\* and one 3599 seconds old passes.
C3_MaxAgeCheck ==
    MaxAgeChecked =>
        /\ response.maxAge = 0 => ~MaxAgeRejected
        /\ response.maxAge # 0 => (MaxAgeRejected <=> now >= ExpiresAtMillis)
        /\ MaxAgeRejected => (Failing /\ Len(spiCalls) = 2)
        /\ ~MaxAgeRejected => (~Failing \/ Len(spiCalls) > 2)
        /\ (response.maxAge = 3600 /\ now = 10000 * 1000) =>
              /\ locals.authTime = 10000 - 3601 => MaxAgeRejected
              /\ locals.authTime = 10000 - 3599 => ~MaxAgeRejected

\* The clock stands exactly at the instant of expiry and the failure has been
\* reported.
C3_Witness ==
    /\ MaxAgeChecked
    /\ response.maxAge # 0
    /\ now = ExpiresAtMillis
    /\ FailSent
    /\ apiCalls[1].request.reason = "EXCEEDS_MAX_AGE"

\* The last millisecond before expiry: the check has passed.
C3_WitnessPass ==
    /\ MaxAgeChecked
    /\ response.maxAge # 0
    /\ now = ExpiresAtMillis - 1
    /\ pc = "checkSubject"

--------------------------------------------------------------------------
(* C4 *)

\* The run has answered Check 3: getUserSubject() returned and checkSubject
\* was applied.
SubjectChecked == NoInteractionRun /\ SpiReturned(3)

SubjectRejected == locals.reason = "DIFFERENT_SUBJECT"

SubjectRequested == response.subject \notin {Null, ""}

\* C4: the subject check passes for every current subject when the
\* authorization response names no subject; otherwise it passes if and only
\* if the requested subject and the current user's subject are the same
\* string, with no normalization: "alice" requested and "Alice" logged in is
\* reported as DIFFERENT_SUBJECT.
C4_SubjectCheck ==
    SubjectChecked =>
        /\ ~SubjectRequested => ~SubjectRejected
        /\ SubjectRequested => (SubjectRejected <=> response.subject # locals.subject)
        /\ SubjectRejected => (Failing /\ Len(spiCalls) = 3)
        /\ (response.subject = "alice" /\ locals.subject = "Alice") => SubjectRejected

\* Subjects that differ only in letter case, reported as DIFFERENT_SUBJECT.
C4_Witness ==
    /\ SubjectChecked
    /\ response.subject = "alice"
    /\ locals.subject = "Alice"
    /\ FailSent
    /\ apiCalls[1].request.reason = "DIFFERENT_SUBJECT"

--------------------------------------------------------------------------
(* C5 *)

\* What a ClaimCollector built from the SPI, the current subject,
\* response.claims and response.claimsLocales returns from collect() when it
\* is run by itself on the provider of this run.
IndependentlyCollected ==
    collect(provider, locals.subject, response.claims, response.claimsLocales)

\* C5: when all four checks have passed and the handler hands over to
\* issuance, the claims it hands over, and the claims text of the request
\* sent to /auth/authorization/issue, are those of an independent
\* collect() on the same provider, subject, claim names and claim locales:
\* no entry added, dropped or altered.
C5_ClaimsAsCollected ==
    (NoInteractionRun /\ (pc = "authorizationIssue" \/ IssueSent)) =>
        /\ locals.claims = IndependentlyCollected
        /\ IssueSent =>
              apiCalls[1].request.claims = stringfyJson(IndependentlyCollected)

\* An issuance whose claims hold two entries, one of them found through the
\* claims locales.
C5_Witness ==
    /\ NoInteractionRun
    /\ IssueSent
    /\ response.claimsLocales # None
    /\ locals.claims.some
    /\ Len(locals.claims.val) = 2
    /\ Len(queries) >= 3

--------------------------------------------------------------------------
(* C6 *)

HandledTicket == IF handler = "Decision" THEN params.ticket ELSE response.ticket

\* A string field of a request: set to the value, or left unset when the
\* value is null or empty.
Carried(value) == IF value \in {Null, ""} THEN Undefined ELSE value

\* C6: the request sent to /auth/authorization/issue, by issue() and by
\* authorize(), carries the ticket of the context, the current subject, the
\* authentication time, the value of getAcr() in its acr field and the value
\* of getSub() in its sub field, for every pair of values; a null value
\* leaves its own field unset and never lands in the other field.
C6_IssueRequestFields ==
    IssueSent =>
        LET request == apiCalls[1].request
        IN  /\ request.ticket = HandledTicket
            /\ request.subject = locals.subject
            /\ request.authTime = locals.authTime
            /\ request.acr = Carried(locals.acr)
            /\ request.sub = Carried(locals.sub)

\* An issue request for getAcr() null and getSub() not null.
C6_Witness ==
    /\ IssueSent
    /\ locals.acr = Null
    /\ locals.sub = "pairwise-1"
    /\ apiCalls[1].request.sub = "pairwise-1"
    /\ apiCalls[1].request.acr = Undefined

--------------------------------------------------------------------------
(* C7 *)

\* C7, as claimed: every call of authorizationFail carries the ticket of the
\* context being handled and one of the reasons NOT_LOGGED_IN,
\* EXCEEDS_MAX_AGE, DIFFERENT_SUBJECT, ACR_NOT_SATISFIED, DENIED.
C7_OnlyFiveReasons ==
    \A k \in DOMAIN apiCalls :
        apiCalls[k].api = FailApi =>
            /\ apiCalls[k].request.ticket = HandledTicket
            /\ apiCalls[k].request.reason \in
                   {"NOT_LOGGED_IN", "EXCEEDS_MAX_AGE", "DIFFERENT_SUBJECT",
                    "ACR_NOT_SATISFIED", "DENIED"}

\* C7, amended: every call of authorizationFail carries the ticket of the
\* context being handled; NoInteractionHandler sends one of NOT_LOGGED_IN,
\* EXCEEDS_MAX_AGE, DIFFERENT_SUBJECT, ACR_NOT_SATISFIED, and
\* AuthorizationDecisionHandler sends DENIED or, when the user has no
\* subject, NOT_AUTHENTICATED; no other reason is ever sent.
C7_FailReasons ==
    \A k \in DOMAIN apiCalls :
        apiCalls[k].api = FailApi =>
            /\ apiCalls[k].request.ticket = HandledTicket
            /\ handler = "NoInteraction" =>
                   apiCalls[k].request.reason \in
                       {"NOT_LOGGED_IN", "EXCEEDS_MAX_AGE", "DIFFERENT_SUBJECT",
                        "ACR_NOT_SATISFIED"}
            /\ handler = "Decision" =>
                   /\ apiCalls[k].request.reason \in {"DENIED", "NOT_AUTHENTICATED"}
                   /\ apiCalls[k].request.reason = "DENIED" <=> ~locals.authorized
                   /\ apiCalls[k].request.reason = "NOT_AUTHENTICATED" =>
                          locals.subject \in {Null, ""}

\* The decision handler has reported a user without a subject.
C7_Witness ==
    /\ handler = "Decision"
    /\ FailSent
    /\ apiCalls[1].request.reason = "NOT_AUTHENTICATED"
    /\ apiCalls[1].request.ticket = params.ticket

--------------------------------------------------------------------------
(* C8 *)

\* C8: in the no-interaction path an exception thrown by the facts source or
\* by the claim provider leaves handle(): the run is over, no request has
\* been or will be sent to /auth/authorization/issue or /fail, and nothing
\* has been written to the HTTP response. The exception is not swallowed
\* either: a run that ended without one has called exactly one of the two
\* APIs.
C8_ExceptionPropagates ==
    NoInteractionRun =>
        /\ thrown => (pc = "done" /\ apiCalls = <<>> /\ http = NoResponse)
        /\ (pc = "done" /\ ~thrown) => Len(apiCalls) = 1

\* The claim provider threw on its second call.
C8_Witness ==
    /\ NoInteractionRun
    /\ thrown
    /\ Len(queries) = 2
    /\ spiCalls = SubSeq(NiSpiOrder, 1, 5)

--------------------------------------------------------------------------
(* C9, C10: one claim name without a language tag, some claim locales *)

\* The normalized claim locales of the collector under scrutiny.
Locales == IF isEmpty(cc.claimLocales) THEN <<>> ELSE cc.claimLocales.val

\* The run collects the single claim "n", which has no language tag, with a
\* non-empty normalized list of claim locales.
UntaggedRun ==
    /\ handler = "Collector"
    /\ params.claimNames = Some(<< <<"n">> >>)
    /\ Len(Locales) > 0

\* What the provider returned to the k-th call made on it.
Result(k) == Answer(provider, queries[k])

\* The provider returned from the k-th call (the last call may have thrown).
HasResult(k) == k \in 1..Len(queries) /\ (k = Len(queries) => ~thrown)

\* A result that is no value: null, or undefined from a provider that
\* returns nothing.
NoValue(result) == result \in {Null, Undefined}

\* The calls so far are the locales in preference order, then at most one
\* call without a locale, and never more.
InPreferenceOrder ==
    /\ Len(queries) <= Len(Locales) + 1
    /\ \A k \in 1..Len(queries) :
           queries[k] = Query("alice", <<"n">>,
                              IF k <= Len(Locales) THEN Locales[k] ELSE NoTag)

\* C9, as claimed: the provider is asked with the locales in preference
\* order, one call at a time; once a locale has yielded a value (a result
\* that is not null) no call follows, with a later locale or without one;
\* the one call without a locale is made exactly when every locale has
\* failed, after all of them.
C9_FirstValueEndsTheQueries ==
    UntaggedRun =>
        /\ InPreferenceOrder
        /\ \A k \in 1..Len(queries) :
               (k < Len(queries) /\ k <= Len(Locales)) => NoValue(Result(k))
        /\ (pc = "done" /\ ~thrown) =>
               (Len(queries) = Len(Locales) + 1
                    <=> \A k \in 1..Len(Locales) : HasResult(k) /\ NoValue(Result(k)))

\* What does hold of the order of the calls: the same, with "a locale has
\* yielded a value" read as "the result is truthy".
C9_FirstTruthyEndsTheQueries ==
    UntaggedRun =>
        /\ InPreferenceOrder
        /\ \A k \in 1..Len(queries) :
               (k < Len(queries) /\ k <= Len(Locales)) => ~Truthy(Result(k))
        /\ (pc = "done" /\ ~thrown) =>
               (Len(queries) = Len(Locales) + 1
                    <=> \A k \in 1..Len(Locales) : HasResult(k) /\ ~Truthy(Result(k)))

\* C10, as claimed: the value collected for the claim is the provider's
\* result for the first locale, in preference order, whose result is not
\* null, whatever that result is: 0, false and the empty string included.
C10_FirstNonNullLocaleWins ==
    (UntaggedRun /\ pc = "done" /\ ~thrown) =>
        \A k \in 1..Len(Locales) :
            ( /\ HasResult(k)
              /\ ~NoValue(Result(k))
              /\ \A m \in 1..(k - 1) : NoValue(Result(m)) )
            => locals.claims = Some(<<[key |-> <<"n">>, value |-> Result(k)]>>)

--------------------------------------------------------------------------
(* C11, C12: the calls made for a list of claim names *)

\* The claim names the collector was asked for.
Requested == IF isEmpty(params.claimNames) THEN <<>> ELSE params.claimNames.val

\* collect() has returned.
Collected == handler = "Collector" /\ pc = "done" /\ ~thrown

\* The claim names of the model by what they are: with the language tag j,
\* without a language tag, and with nothing before the separator.
TaggedNames == { <<"n", "#", "j">>, <<"n", "#", "j", "#">> }

UntaggedNames == { <<"n">>, <<"n", "#">> }

NamelessNames == { <<>>, <<"#", "j">> }

TaggedQuery == Query("alice", <<"n">>, <<"j">>)

UntaggedQuery == Query("alice", <<"n">>, NoTag)

\* How many entries of seq are in S.
Occurrences(seq, S) == Cardinality({ k \in DOMAIN seq : seq[k] \in S })

\* C11: a claim name with an explicit language tag is asked for exactly
\* once, with exactly that tag, whatever the claim locales are: the calls
\* with the tag are as many as the tagged names, a list of tagged names
\* leads to no call with a claim locale or without a tag, and when the one
\* call for a tagged name returns null the claim is left out and nothing
\* else is asked.
C11_TaggedNameAskedOnce ==
    handler = "Collector" =>
        /\ Occurrences(queries, {TaggedQuery}) <= Occurrences(Requested, TaggedNames)
        /\ Collected =>
               Occurrences(queries, {TaggedQuery}) = Occurrences(Requested, TaggedNames)
        /\ (\A k \in DOMAIN Requested : Requested[k] \in TaggedNames \cup NamelessNames)
               => \A k \in DOMAIN queries : queries[k] = TaggedQuery
        /\ (Collected /\ Requested = << <<"n", "#", "j">> >> /\ Result(1) = Null) =>
               /\ queries = <<TaggedQuery>>
               /\ locals.claims = None

\* The tagged name asked for with two claim locales at hand, and the one
\* call returned null.
C11_Witness ==
    /\ Collected
    /\ Requested = << <<"n", "#", "j">> >>
    /\ Len(Locales) = 2
    /\ queries = <<TaggedQuery>>
    /\ Result(1) = Null
    /\ locals.claims = None

\* The claim locales are absent, or nothing is left of them once the empty
\* strings are dropped.
LocalesAbsent ==
    \/ isEmpty(params.claimLocales)
    \/ \A k \in DOMAIN params.claimLocales.val : params.claimLocales.val[k] = <<>>

RECURSIVE QueriesWithoutLocales(_)
\* One call for each claim name that has a name part, in the order of the
\* list: with the tag of the name, or without a tag.
QueriesWithoutLocales(names) ==
    IF names = <<>> THEN <<>>
    ELSE (IF Head(names) \in UntaggedNames THEN <<UntaggedQuery>>
          ELSE IF Head(names) \in TaggedNames THEN <<TaggedQuery>>
          ELSE <<>>)
         \o QueriesWithoutLocales(Tail(names))

\* C12: with the claim locales absent, or normalized to absent, a claim name
\* without a tag is asked for exactly once, with no locale argument: the
\* calls made are one per claim name, in order, and never more.
C12_NoLocalesAskedOnce ==
    (handler = "Collector" /\ LocalesAbsent) =>
        /\ IsPrefix(queries, QueriesWithoutLocales(Requested))
        /\ Collected => queries = QueriesWithoutLocales(Requested)

\* Two untagged names collected with claim locales that hold one empty
\* string: two calls.
C12_Witness ==
    /\ Collected
    /\ params.claimLocales = Some(<< <<>> >>)
    /\ Requested = << <<"n">>, <<"n", "#">> >>
    /\ queries = <<UntaggedQuery, UntaggedQuery>>

--------------------------------------------------------------------------
(* C13 *)

\* The mapping collect() returned, as its list of entries.
Entries == IF locals.claims.some THEN locals.claims.val ELSE <<>>

\* C13, as claimed: every key of the mapping collect() returns comes from a
\* requested claim name (the name itself or its name part), and no key maps
\* to null or to undefined.
C13_NoKeyWithoutValue ==
    Collected =>
        \A e \in DOMAIN Entries :
            /\ \E k \in DOMAIN Requested :
                   Entries[e].key \in {Requested[k], SplitClaimName(Requested[k]).name}
            /\ Entries[e].value \notin {Null, Undefined}

--------------------------------------------------------------------------
(* C14 *)

\* The key each claim name of the model is collected under: the name as
\* requested, or what stands before the separator when the name ends with it.
ExpectedKey(claimName) ==
    IF claimName \in { <<"n", "#">>, <<"n", "#", "j", "#">> } THEN <<"n">>
    ELSE claimName

\* Every key is the key of a requested name, and a single requested name
\* whose value is not null is collected under its key.
KeysAsExpected ==
    /\ \A e \in DOMAIN Entries :
           \E k \in DOMAIN Requested :
               /\ Requested[k] \notin NamelessNames
               /\ Entries[e].key = ExpectedKey(Requested[k])
    /\ (Len(Requested) = 1 /\ queries # <<>> /\ Result(Len(queries)) # Null) =>
           Entries = << [key   |-> ExpectedKey(Requested[1]),
                         value |-> Result(Len(queries))] >>

\* C14, as claimed: the key of a collected claim is the requested claim
\* name, #tag included, or the name part alone when the requested name ends
\* with the bare separator; and a requested name that carries a non-empty
\* tag is never collected under its bare name part.
C14_TaggedNeverUnderBareName ==
    Collected =>
        /\ KeysAsExpected
        /\ (\A k \in DOMAIN Requested : Requested[k] \in TaggedNames \cup NamelessNames)
               => \A e \in DOMAIN Entries : Entries[e].key # <<"n">>

\* C14, amended: the key of a collected claim is the requested claim name,
\* #tag included, or the name part alone when the requested name ends with
\* the separator, a name like n#j# included although it is asked for with
\* the tag j; a requested name that carries a non-empty tag and does not end
\* with the separator is never collected under its bare name part.
C14_KeyOfClaim ==
    Collected =>
        /\ KeysAsExpected
        /\ (\A k \in DOMAIN Requested :
                Requested[k] \in { <<"n", "#", "j">> } \cup NamelessNames)
               => \A e \in DOMAIN Entries : Entries[e].key = <<"n", "#", "j">>

\* The name n#j#, asked for with the tag j and collected under n.
C14_Witness ==
    /\ Collected
    /\ Requested = << <<"n", "#", "j", "#">> >>
    /\ queries = <<TaggedQuery>>
    /\ Entries = << [key |-> <<"n">>, value |-> "V1"] >>

--------------------------------------------------------------------------
(* C15 *)

\* The k-th call asked for a claim locale of the collector.
LocaleQuery(k) == \E l \in DOMAIN Locales : queries[k].tag = Locales[l]

\* The k-th call gave its claim an entry: a claim locale that yielded a
\* value the locale loop returns, or any other call that did not return null.
ProducedEntry(k) ==
    IF LocaleQuery(k) THEN Truthy(Result(k)) ELSE Result(k) # Null

\* C15: collect() never returns a mapping without keys; it returns absent
\* exactly when no requested claim produced an entry; and with claimNames
\* absent or empty it returns absent without a single call on the provider.
C15_NeverEmptyMapping ==
    handler = "Collector" =>
        /\ locals.claims # Some(<<>>)
        /\ Collected =>
               (locals.claims = None <=> \A k \in DOMAIN queries : ~ProducedEntry(k))
        /\ isEmpty(params.claimNames) =>
               /\ queries = <<>>
               /\ ~thrown
               /\ pc = "done" => locals.claims = None

\* Two claims asked for, one call or more for each, no entry: absent.
C15_Witness ==
    /\ Collected
    /\ Requested = << <<"n">>, <<"n", "#", "j">> >>
    /\ Len(queries) >= 3
    /\ locals.claims = None

--------------------------------------------------------------------------
(* C16, C17: the claim locales after the constructor *)

\* A collector has been constructed.
Constructed == handler = "Constructor" /\ pc \in {"constructed", "renormalized"}

\* The list the constructor was given, the empty list for none.
GivenLocales == IF isEmpty(params.claimLocales) THEN <<>> ELSE params.claimLocales.val

\* A locale folded to lower case.
Fold(cs) == [k \in DOMAIN cs |-> LowerChar(cs[k])]

\* The positions of the given list that hold the first occurrence of a
\* non-empty locale, occurrences counted without regard to case.
FirstOccurrences ==
    { k \in DOMAIN GivenLocales :
          /\ GivenLocales[k] # <<>>
          /\ \A m \in 1..(k - 1) : Fold(GivenLocales[m]) # Fold(GivenLocales[k]) }

\* C16: after construction the normalized claimLocales is absent or a
\* non-empty list without an empty string and without two entries equal
\* under lower-case folding; it is the given list restricted to the first
\* occurrence of each locale, in the given casing and order; and a list of
\* empty strings only normalizes to absent.
C16_NormalizedLocales ==
    Constructed =>
        /\ cc.claimLocales = None <=> FirstOccurrences = {}
        /\ cc.claimLocales # None =>
              LET list == cc.claimLocales.val
              IN  /\ cc.claimLocales.some
                  /\ Len(list) >= 1
                  /\ \A i \in DOMAIN list : list[i] # <<>>
                  /\ \A i, j \in DOMAIN list : i # j => Fold(list[i]) # Fold(list[j])
                  /\ \E at \in [DOMAIN list -> FirstOccurrences] :
                         /\ \A i, j \in DOMAIN list : i < j => at[i] < at[j]
                         /\ \A k \in FirstOccurrences : \E i \in DOMAIN list : at[i] = k
                         /\ \A i \in DOMAIN list : list[i] = GivenLocales[at[i]]

\* EN, an empty string and en given: EN alone is kept.
C16_Witness ==
    /\ Constructed
    /\ pc = "constructed"
    /\ params.claimLocales = Some(<< <<"E", "N">>, <<>>, EN >>)
    /\ cc.claimLocales = Some(<< <<"E", "N">> >>)

\* C17: normalization is idempotent: a collector constructed from the
\* normalized claim locales of another holds the same claim locales, entry
\* by entry, and absent stays absent.
C17_NormalizeIdempotent ==
    (handler = "Constructor" /\ pc = "renormalized") =>
        cc.claimLocales = params.claimLocales

\* en, EN and ja were given; en and ja were kept, and kept again.
C17_Witness ==
    /\ handler = "Constructor"
    /\ pc = "renormalized"
    /\ response.claimsLocales = Some(<< EN, <<"E", "N">>, <<"j", "a">> >>)
    /\ cc.claimLocales = Some(<< EN, <<"j", "a">> >>)

--------------------------------------------------------------------------
(* C18 *)

\* C18, as claimed: when /auth/token answers a token exchange request,
\* handle() calls spi.tokenExchange, and the response is the one the SPI
\* prepared or the 400 Bad Request the handler generates.
C18_TokenExchangeDelegated ==
    (handler = "Token" /\ pc = "done" /\ response.action = "TOKEN_EXCHANGE") =>
        /\ \E k \in DOMAIN spiCalls : spiCalls[k] = "tokenExchange"
        /\ http = NoResponse \/ http.status = StatusBadRequest

--------------------------------------------------------------------------
(* C19 *)

\* C19, as claimed: in every result of validate(), introspectionResult is the
\* response of /auth/introspection whenever the call returned, whatever its
\* action, and introspectionError is set exactly when the call threw: one of
\* the two is defined, and one only.
C19_ResultOrError ==
    (handler = "Validator" /\ locals.returned) =>
        LET threw == response = NoIntrospectionResponse
        IN  /\ ~threw => locals.introspectionResult = Some(response)
            /\ threw => locals.introspectionResult = None
            /\ locals.introspectionError.some <=> threw

--------------------------------------------------------------------------
(* C20 *)

\* C20, as claimed: noContent writes the status 204 No Content, and so
\* JwksRequestHandler.handle answers 204 when /service/jwks returns null.
C20_NoContentIs204 ==
    (handler = "Jwks" /\ pc = "done" /\ response.returned /\ response.json = Null) =>
        /\ http.by = "noContent"
        /\ http.status = StatusNoContent

--------------------------------------------------------------------------
(* C21 *)

\* The actions each dispatcher has a case for, as its switch lists them.
EnumeratedActions(api) ==
    CASE api = TokenApi ->
             {"INVALID_CLIENT", "INTERNAL_SERVER_ERROR", "BAD_REQUEST", "PASSWORD", "OK"}
      [] api = TokenIssueApi -> {"INTERNAL_SERVER_ERROR", "OK"}
      [] api = TokenFailApi  -> {"INTERNAL_SERVER_ERROR", "BAD_REQUEST"}
      [] api = "/auth/revocation" ->
             {"INVALID_CLIENT", "INTERNAL_SERVER_ERROR", "BAD_REQUEST", "OK"}
      [] api = "/auth/introspection/standard" ->
             {"INTERNAL_SERVER_ERROR", "BAD_REQUEST", "OK"}
      [] api = "/auth/userinfo" ->
             {"INTERNAL_SERVER_ERROR", "BAD_REQUEST", "UNAUTHORIZED", "FORBIDDEN", "OK"}
      [] api = "/auth/userinfo/issue" ->
             {"INTERNAL_SERVER_ERROR", "BAD_REQUEST", "UNAUTHORIZED", "FORBIDDEN",
              "JSON", "JWT"}
      [] api \in {IssueApi, FailApi} ->
             {"INTERNAL_SERVER_ERROR", "BAD_REQUEST", "LOCATION", "FORM"}

DispatchedApis ==
    {TokenApi, TokenIssueApi, TokenFailApi, "/auth/revocation",
     "/auth/introspection/standard", "/auth/userinfo", "/auth/userinfo/issue",
     IssueApi, FailApi}

\* The k-th API call returned an action its dispatcher has no case for.
Unenumerated(k) ==
    /\ apiCalls[k].api \in DispatchedApis
    /\ apiCalls[k].outcome # Throws
    /\ apiCalls[k].outcome \notin EnumeratedActions(apiCalls[k].api)

\* C21: in each of the ten dispatchers an action outside the cases of the
\* switch ends in the fallback, which writes 500 Internal Server Error, and
\* no API call follows the one that returned that action. The token handler
\* dispatches in a step of its own, so before that step nothing is written.
C21_FallbackIs500 ==
    /\ \A k \in DOMAIN apiCalls :
           Unenumerated(k) =>
               /\ k = Len(apiCalls)
               /\ ~thrown
               /\ \/ pc = "done" /\ http = unknownAction
                                 /\ http.status = StatusInternalServerError
                  \/ pc = "dispatch" /\ handler = "Token" /\ http = NoResponse
    /\ (handler = "AuthorizationError" /\ pc = "done"
            /\ response.action \notin {"INTERNAL_SERVER_ERROR", "BAD_REQUEST", "LOCATION",
                                       "FORM", "INTERACTION", "NO_INTERACTION"}) =>
           /\ http = unknownAction
           /\ http.status = StatusInternalServerError
           /\ apiCalls = <<>>

\* /auth/userinfo/issue returned an action getUserInfo has no case for, after
\* /auth/userinfo returned OK.
C21_Witness ==
    /\ handler = "UserInfo"
    /\ pc = "done"
    /\ Len(apiCalls) = 2
    /\ apiCalls[2].api = "/auth/userinfo/issue"
    /\ apiCalls[2].outcome = "UNKNOWN"
    /\ http.status = StatusInternalServerError

--------------------------------------------------------------------------
(* C22 *)

\* A claim name cut at its first separator: what stands before it, and all
\* that stands after it (NoTag without a separator).
NamePart(claimName) ==
    LET at == IndexOf(claimName, CLAIM_SEPARATOR)
    IN  IF at = 0 THEN claimName ELSE SubSeq(claimName, 1, at - 1)

Remainder(claimName) ==
    LET at == IndexOf(claimName, CLAIM_SEPARATOR)
    IN  IF at = 0 THEN NoTag ELSE SubSeq(claimName, at + 1, Len(claimName))

\* The query q is one that the requested claim name accounts for: it asks
\* for the name part, which is not empty, with the whole remainder as its
\* tag, or, the name carrying no tag, with a claim locale or with no tag.
AccountsFor(claimName, q) ==
    /\ Len(NamePart(claimName)) > 0
    /\ q.name = NamePart(claimName)
    /\ IF isNotEmptyChars(Remainder(claimName))
       THEN q.tag = Remainder(claimName)
       ELSE \/ q.tag = NoTag
            \/ /\ cc.claimLocales.some
               /\ \E k \in DOMAIN cc.claimLocales.val : q.tag = cc.claimLocales.val[k]

\* C22: every query of collect() asks for the part of a requested claim name
\* before its first '#', which is not empty, and with all that follows the
\* first '#' as the tag (b#c for a#b#c); a name without '#' is asked without
\* a tag of its own; a name with an empty name part is not asked at all.
C22_SplitAtFirstSeparator ==
    \A i \in DOMAIN queries :
        \E k \in DOMAIN Names(cc) : AccountsFor(Names(cc)[k], queries[i])

--------------------------------------------------------------------------
(* C23 *)

RECURSIVE TrimStart(_)
TrimStart(cs) ==
    IF Len(cs) > 0 /\ cs[1] = " " THEN TrimStart(SubSeq(cs, 2, Len(cs))) ELSE cs

RECURSIVE TrimEnd(_)
TrimEnd(cs) ==
    IF Len(cs) > 0 /\ cs[Len(cs)] = " " THEN TrimEnd(SubSeq(cs, 1, Len(cs) - 1)) ELSE cs

\* String.trim on a sequence of characters.
Trim(cs) == TrimEnd(TrimStart(cs))

\* C23: a requested claim name that is empty once trimmed is skipped: no
\* query asks for it and no key of the result is that name.
C23_BlankNamesSkipped ==
    /\ \A i \in DOMAIN queries : Len(Trim(queries[i].name)) > 0
    /\ \A k \in DOMAIN cc.claims : Len(Trim(cc.claims[k].key)) > 0

\* What does hold: a claim name of length zero is skipped.
C23_EmptyNamesSkipped ==
    /\ \A i \in DOMAIN queries : Len(queries[i].name) > 0
    /\ \A k \in DOMAIN cc.claims : Len(cc.claims[k].key) > 0

--------------------------------------------------------------------------
(* C24 *)

\* The value collect() resolved for the k-th requested claim name, by the
\* answers the provider gave.
ValueOf(k) ==
    LET parts == SplitClaimName(Requested[k])
    IN  getClaimValue(provider, cc.subject, parts.name, parts.tag, cc.claimLocales)

\* The k-th requested claim name resolved to a value, one that is not null,
\* and has the output key `key`.
Produces(k, key) ==
    /\ Len(Requested[k]) > 0
    /\ Len(SplitClaimName(Requested[k]).name) > 0
    /\ ValueOf(k) # Null
    /\ key = (IF endsWith(Requested[k], CLAIM_SEPARATOR)
              THEN SplitClaimName(Requested[k]).name ELSE Requested[k])

\* The first and the last requested name that produce the key (0 if none).
FirstProducer(key) ==
    IF \E k \in DOMAIN Requested : Produces(k, key)
    THEN CHOOSE k \in DOMAIN Requested :
             Produces(k, key) /\ \A m \in 1..(k - 1) : ~Produces(m, key)
    ELSE 0

LastProducer(key) ==
    IF \E k \in DOMAIN Requested : Produces(k, key)
    THEN CHOOSE k \in DOMAIN Requested :
             Produces(k, key) /\ \A m \in (k + 1)..Len(Requested) : ~Produces(m, key)
    ELSE 0

\* The entries stand in the order in which the requested names first
\* produced their keys, each producing name has its entry, and each entry
\* holds the value of the last name that produced its key.
InRequestOrderLastWins ==
    /\ \A e \in DOMAIN Entries : FirstProducer(Entries[e].key) > 0
    /\ \A e1, e2 \in DOMAIN Entries :
           e1 < e2 => FirstProducer(Entries[e1].key) < FirstProducer(Entries[e2].key)
    /\ \A k \in DOMAIN Requested, e \in DOMAIN Entries :
           Produces(k, Entries[e].key) =>
               Entries[e].value = ValueOf(LastProducer(Entries[e].key))
    /\ \A k \in DOMAIN Requested :
           \A key \in {Requested[k], SplitClaimName(Requested[k]).name} :
               Produces(k, key) => \E e \in DOMAIN Entries : Entries[e].key = key

\* C24: the entries of the mapping collect() returns stand in the order of
\* the requested claim names, and where several requested names have the
\* same output key (n and n#) the entry holds the value resolved for the
\* last of them that resolved to a value.
C24_InRequestOrderLastWins == Collected => InRequestOrderLastWins

\* What does hold: the same, for the runs in which no requested name is an
\* array index.
C24_StringKeysInRequestOrder ==
    (Collected /\ \A k \in DOMAIN Requested : ~IsArrayIndex(Requested[k]))
        => InRequestOrderLastWins

--------------------------------------------------------------------------
(* C25 *)

\* How often the handler has called spi.authenticateUser.
AuthenticateUserCalls == Occurrences(spiCalls, {"authenticateUser"})

\* The calls of one API made so far.
CallsOf(api) == {k \in DOMAIN apiCalls : apiCalls[k].api = api}

\* handlePassword has got its answer from authenticateUser.
Authenticated == handler = "Token" /\ pc \in {"tokenIssue", "tokenFail", "done"}
                     /\ response.action = "PASSWORD"

C25_WitnessIssue ==
    /\ Authenticated
    /\ pc = "done"
    /\ locals.subject = "bob"
    /\ Len(apiCalls) = 2
    /\ apiCalls[2].api = TokenIssueApi
    /\ apiCalls[2].request.subject = "bob"

--------------------------------------------------------------------------
(* C26 *)

\* The request handlers: every entry point of the model but the
\* AccessTokenValidator, which is given no context to write to and reports
\* a failed call in the result it returns.
RequestHandlers ==
    {"NoInteraction", "Decision", "Token", "Jwks", "Revocation",
     "StandardIntrospection", "Configuration", "AuthorizationError", "UserInfo"}

\* C26: in every request handler a call of the Authlete API that throws is
\* the last call of the request; the handler does not throw, it is done, and
\* the response is the 500 Internal Server Error with the server_error JSON
\* that the catch block wrote, not written over by anything.
C26_ApiFailureIs500 ==
    handler \in RequestHandlers =>
        \A k \in DOMAIN apiCalls :
            apiCalls[k].outcome = Throws =>
                /\ k = Len(apiCalls)
                /\ ~thrown
                /\ pc = "done"
                /\ http.by = "internalServerErrorOnApiCallFailure"
                /\ http.status = StatusInternalServerError
                /\ http.body = ServerErrorJson

\* /auth/token returned PASSWORD, the user was authenticated, and the call
\* of /auth/token/issue threw.
C26_Witness ==
    /\ handler = "Token"
    /\ Len(apiCalls) = 2
    /\ apiCalls[1].outcome = "PASSWORD"
    /\ apiCalls[2].api = TokenIssueApi
    /\ apiCalls[2].outcome = Throws
    /\ http.status = StatusInternalServerError

--------------------------------------------------------------------------
(* C27 *)

\* The userinfo handler was given no access token: none, null or empty.
WithoutAccessToken ==
    handler = "UserInfo" /\ params.accessToken \in {Undefined, Null, ""}

\* C27: UserInfoRequestHandler.handle without an access token writes 400 Bad
\* Request with the fixed invalid_token challenge in WWW-Authenticate, and
\* calls neither /auth/userinfo nor /auth/userinfo/issue nor the SPI, the
\* claim provider included.
C27_MissingAccessToken ==
    WithoutAccessToken =>
        /\ apiCalls = <<>>
        /\ queries = <<>>
        /\ spiCalls = <<>>
        /\ ~thrown
        /\ IF pc = "done"
           THEN /\ http.status = StatusBadRequest
                /\ http.by = "wwwAuthenticate"
                /\ http.challenge = CHALLENGE_ON_MISSING_ACCESS_TOKEN
           ELSE pc = "handle" /\ http = NoResponse

\* handle() has returned on an access token that is the empty string.
C27_Witness ==
    /\ WithoutAccessToken
    /\ params.accessToken = ""
    /\ pc = "done"
    /\ http.status = StatusBadRequest

--------------------------------------------------------------------------
(* C28 *)

\* The promise returned by TokenRequestHandler.handle has resolved.
HandleResolved == handler = "Token" /\ locals.resolved

\* C28: when the promise of TokenRequestHandler.handle resolves, whatever
\* the action of /auth/token, PASSWORD included, the response has been
\* written and the handler has nothing left to do: no call of
\* /auth/token/issue or /auth/token/fail is still to complete and no write
\* of the response is still to come.
C28_ResolvedMeansWritten ==
    HandleResolved => (pc = "done" /\ http # NoResponse /\ http.status # 0)

\* What does hold: the same for every action but PASSWORD.
C28_ResolvedMeansWrittenButPassword ==
    (HandleResolved /\ response.action # "PASSWORD") =>
        (pc = "done" /\ http # NoResponse /\ http.status # 0)

--------------------------------------------------------------------------
(* C29 *)

\* The subject NoInteractionHandler.handle gave to the ClaimCollector and to
\* authorizationIssue is each time a string that is not empty.
SubjectAtIssuance ==
    /\ cc # NoCollector => isNotEmpty(cc.subject)
    /\ \A k \in DOMAIN apiCalls :
           apiCalls[k].api = IssueApi => isNotEmpty(apiCalls[k].request.subject)

\* C29: whenever NoInteractionHandler.handle reaches issuance, the subject
\* it passes to the ClaimCollector and to authorizationIssue is a non-null,
\* non-empty string, also when the request names no subject and
\* getUserSubject() returns null.
C29_SubjectAtIssuance == NoInteractionRun => SubjectAtIssuance

\* What does hold: the same for the requests that name a subject.
C29_RequestedSubjectAtIssuance ==
    (NoInteractionRun /\ isNotEmpty(response.subject)) =>
        /\ SubjectAtIssuance
        /\ IssueSent => apiCalls[1].request.subject = response.subject

--------------------------------------------------------------------------
(* C30 *)

\* A helper has written to ctx.response; LastCall is the last call made.
Written == handler = "Response" /\ Len(params) > 0

LastCall == params[Len(params)]

\* The last call handed buildResponse no body, or an empty one, and wrote no
\* body of its own after it.
WithoutBody ==
    /\ LastCall.helper \notin {"location", "okHtml"}
    /\ LastCall.content \in {Undefined, ""}

\* The last call handed buildResponse no status.
WithoutStatus ==
    /\ LastCall.helper \in {"wwwAuthenticate", "buildResponse"}
    /\ LastCall.status = 0

\* C30: every response written through a response helper carries
\* Cache-Control: no-store and Pragma: no-cache, whatever its status, content
\* type and body; a helper called with an empty body leaves the body as it
\* was, and one called with no status leaves the status as it was.
C30_CacheHeadersAndKeptFields ==
    Written =>
        /\ http.cacheControl = "no-store"
        /\ http.pragma = "no-cache"
        /\ WithoutBody => http.body = response.body
        /\ WithoutStatus => http.status = response.status

\* okJson wrote a body, then badRequest was called with an empty content:
\* the status is 400 and the body is still the first one.
C30_Witness ==
    /\ Written
    /\ Len(params) = 2
    /\ params[1].helper = "okJson"
    /\ params[1].content = "body-1"
    /\ params[2].helper = "badRequest"
    /\ params[2].content = ""
    /\ http.status = StatusBadRequest
    /\ http.body = "body-1"
    /\ http.cacheControl = "no-store"

\* wwwAuthenticate called without a status after noContent: the status stays.
C30_WitnessStatus ==
    /\ Written
    /\ Len(params) = 2
    /\ params[1].helper = "noContent"
    /\ params[2].helper = "wwwAuthenticate"
    /\ params[2].status = 0
    /\ http.status = StatusOK
    /\ http.wwwAuthenticate = "challenge-1"

====
